---- MODULE Spec2Model ----
(***************************************************************************)
(* A model of the import pipeline of backup-manager-js:                   *)
(* src/src/import/import.service.ts (ImportService).                      *)
(*                                                                         *)
(* One run of importFromSourceAsync / importAsync is a state machine: the  *)
(* for-loop of importAsync walks orderedImportItems, importItemAsync       *)
(* routes every item to its per-kind importer, the importer validates,     *)
(* (for language variants) rewrites references, issues the remote call     *)
(* and awaits it; the .then handler records the result and reports         *)
(* progress, the .catch handler logs and re-throws.                        *)
(*                                                                         *)
(* Identifiers and codenames are strings; "" stands for an absent          *)
(* (undefined / empty, i.e. falsy) value.                                  *)
(*                                                                         *)
(* The cleanup sweep (CleanService.cleanAllAsync) and the export           *)
(* (ExportService.exportAllAsync) of src/src/clean/clean.service.ts are    *)
(* state machines of their own, SpecClean and SpecExport, over the same    *)
(* variables: the remote operations issued, the answers of the project,    *)
(* the calls of the progress callback, what the caller received.           *)
(***************************************************************************)
EXTENDS Integers, Sequences, FiniteSets, TLC

VARIABLES
    entry,              \* which public method the caller invoked
    sourceData,         \* IImportSource.importData: per-kind lists, source order
    captured,           \* the payloads as captured from the source (never written)
    orderedImportItems, \* IImportData.orderedImportItems (objects, edited in place)
    binaryFiles,        \* IImportData.binaryFiles
    config,             \* IImportConfig
    pc,                 \* position of the run
    idx,                \* position of the for-loop of importAsync (1-based)
    importedItems,      \* the accumulator of importAsync
    localItems,         \* importedItems of the per-kind importer now running
    inFlight,           \* remote operations awaiting their response
    pendingFile,        \* file reference the last upload returned
    remoteOps,          \* every remote operation issued, in order
    responses,          \* how the target answered, in order
    target,             \* objects the target has created, in order
    processed,          \* calls of config.processItem, in order
    lookups,            \* lookups of the accumulated results, in order
    error,              \* the error the run threw, or NoError
    returned,           \* what the caller of the entry method received
    listed,             \* what the listings of a cleanup or an export returned
    exportData          \* IExportData, as far as an export has built it

vars == <<entry, sourceData, captured, orderedImportItems, binaryFiles, config,
          pc, idx, importedItems, localItems, inFlight, pendingFile, remoteOps,
          responses, target, processed, lookups, error, returned, listed,
          exportData>>

-----------------------------------------------------------------------------
(* Bounds of the model *)

\* longest list of import items handed to importAsync directly
MaxItems == 2
\* most entities of one kind in a source snapshot
MaxPerKind == 2
\* most references in the elements of one language variant
MaxRefs == 2
\* most entities in the project a cleanup runs against
MaxEntities == 3
\* most kinds an export filter leaves out
MaxExcluded == 1
\* most entities in the project an export runs against
MaxExported == 2

-----------------------------------------------------------------------------
(* Kinds and constants of the program *)

ItemType == {"taxonomy", "contentTypeSnippet", "contentType", "language",
             "asset", "contentItem", "languageVariant"}

\* the reserved id of "no fallback language" (the default language)
NoFallbackId == "00000000-0000-0000-0000-000000000000"

NoError == [kind |-> "none"]

\* ids the target assigns, in the order it assigns them; they are fresh, so
\* none of them is an id of the source instance
TargetIds == <<"tgt-1", "tgt-2", "tgt-3", "tgt-4", "tgt-5", "tgt-6", "tgt-7",
               "tgt-8", "tgt-9", "tgt-10", "tgt-11", "tgt-12">>

\* id of a content item that was in the target before the run
ExistingItemId == "tgt-0"

-----------------------------------------------------------------------------
(* The entities a run may be handed (IPreparedImportItem: {type, item}) *)

PassThrough(type, id, codename, name) ==
    [type |-> type, item |-> [id |-> id, codename |-> codename, name |-> name]]

Language(id, codename, name, fallback) ==
    [type |-> "language",
     item |-> [id |-> id, codename |-> codename, name |-> name,
               fallback_language |-> [codename |-> fallback]]]

Asset(id, fileName, title) ==
    [type |-> "asset",
     item |-> [id |-> id, file_name |-> fileName, title |-> title]]

ContentItem(id, codename, name, typeCodename) ==
    [type |-> "contentItem",
     item |-> [id |-> id, codename |-> codename, name |-> name,
               type |-> [codename |-> typeCodename]]]

LanguageVariant(itemCodename, languageCodename, elements) ==
    [type |-> "languageVariant",
     item |-> [item |-> [id |-> "src-item", codename |-> itemCodename],
               language |-> [id |-> "src-en", codename |-> languageCodename],
               workflow_step |-> [id |-> "src-step"],
               elements |-> elements]]

\* a variant of the same content item in another language, in a workflow
\* step of its own
LanguageVariantIn(languageId, languageCodename, step) ==
    [type |-> "languageVariant",
     item |-> [item |-> [id |-> "src-item", codename |-> "home"],
               language |-> [id |-> languageId, codename |-> languageCodename],
               workflow_step |-> [id |-> step],
               elements |-> <<>>]]

\* sequences over S of length at most n
RECURSIVE SeqsUpTo(_, _)
SeqsUpTo(S, n) ==
    IF n = 0 THEN {<<>>}
    ELSE LET shorter == SeqsUpTo(S, n - 1)
         IN  shorter \cup {Append(s, x) : s \in {t \in shorter : Len(t) = n - 1}, x \in S}

\* a reference inside the elements of a language variant: to the asset that
\* has a binary, to the valid content item
ElementRefs == {[id |-> "src-asset"], [id |-> "src-item"]}

\* the element payloads of the pool
ElementLists == SeqsUpTo(ElementRefs, MaxRefs)

\* the entities a snapshot of the source may hold: each has the codenames
\* it needs; the asset src-lost has no binary payload
SourcePool ==
    {PassThrough("taxonomy", "src-tax", "tags", "Tags"),
     PassThrough("contentTypeSnippet", "src-snip", "meta", "Meta"),
     PassThrough("contentType", "src-type", "article", "Article"),
     Language("src-en", "en", "English", "en"),
     Language("src-de", "de", "German", "en"),
     Asset("src-asset", "logo.png", "Logo"),
     Asset("src-lost", "lost.png", "Lost"),
     ContentItem("src-item", "home", "Home", "article")}
    \cup {LanguageVariant("home", "en", e) : e \in ElementLists}
    \cup {LanguageVariantIn("src-de", "de", "src-draft")}

\* the items importAsync may be handed directly: the entities of the source
\* (of the variants those without element references), those that lack a
\* codename, and one of a kind that is not supported
Pool ==
    {e \in SourcePool : e.type = "languageVariant" => e.item.elements = <<>>}
    \cup {Language("src-xx", "xx", "Broken", ""),
          ContentItem("src-orphan", "orphan", "Orphan", ""),
          LanguageVariant("", "en", <<>>),
          LanguageVariant("home", "", <<>>),
          PassThrough("workflow", "src-wf", "wf", "Workflow")}

\* what identifies an entity of the source: its id, or for a language
\* variant the pair it is addressed by
Identity(it) ==
    IF it.type = "languageVariant"
    THEN <<it.type, it.item.item.id, it.item.language.id>>
    ELSE <<it.type, it.item.id, "">>

\* a list never holds one entity twice
Distinct(l) ==
    \A i \in 1..Len(l) : \A j \in 1..Len(l) :
        i # j => Identity(l[i]) # Identity(l[j])

InputLists == {l \in SeqsUpTo(Pool, MaxItems) : Distinct(l)}

\* the lists of one kind a snapshot may hold
KindLists(type) ==
    LET lists == {l \in SeqsUpTo({e \in SourcePool : e.type = type}, MaxPerKind) :
                    Distinct(l)}
    IN  {[i \in 1..Len(l) |-> l[i].item] : l \in lists}

\* the binary payloads the export layer supplied (IBinaryFile)
BinaryFile(assetId, data) == [asset |-> [id |-> assetId], binaryData |-> data]

BinaryFiles == <<BinaryFile("src-other", "bytes-other"), BinaryFile("src-asset", "bytes-logo")>>

Configs ==
    [skipLanguages : BOOLEAN, hasProcessItem : BOOLEAN,
     workflowIdForImportedItems : {"tgt-step"}]

-----------------------------------------------------------------------------
(* Dependency order planner: importHelper.prepareImportData *)

\* a precedence that creates content items ahead of the types they declare
importOrderItemsFirst == <<"taxonomy", "contentItem", "contentTypeSnippet", "contentType",
                           "language", "asset", "languageVariant">>

\* the fixed precedence of kinds, first to last
importOrder == <<"taxonomy", "contentTypeSnippet", "contentType", "language",
                 "asset", "contentItem", "languageVariant">>

Rank(type) == CHOOSE k \in 1..Len(importOrder) : importOrder[k] = type

\* the entities of the snapshot as one list, kind by kind in the order the
\* snapshot lists its kinds
SnapshotKeys == <<"contentItem", "languageVariant", "asset", "language",
                  "contentType", "contentTypeSnippet", "taxonomy">>

RECURSIVE Flatten(_, _)
Flatten(data, k) ==
    IF k > Len(SnapshotKeys) THEN <<>>
    ELSE LET type == SnapshotKeys[k]
         IN  [i \in 1..Len(data[type]) |-> [type |-> type, item |-> data[type][i]]]
             \o Flatten(data, k + 1)

\* insert x into the sorted list l behind every item whose kind does not
\* come later than the kind of x
RECURSIVE InsertByRank(_, _)
InsertByRank(l, x) ==
    IF l = <<>> THEN <<x>>
    ELSE IF Rank(Head(l).type) <= Rank(x.type)
         THEN <<Head(l)>> \o InsertByRank(Tail(l), x)
         ELSE <<x>> \o l

\* a stable sort by kind precedence
RECURSIVE SortItems(_)
SortItems(l) ==
    IF l = <<>> THEN <<>>
    ELSE InsertByRank(SortItems(SubSeq(l, 1, Len(l) - 1)), l[Len(l)])

prepareImportData(data) == SortItems(Flatten(data, 1))

EmptySnapshot == [type \in ItemType |-> <<>>]

\* the lists of language variants a snapshot may hold: one variant with
\* its element references, or several variants of the content item, none
\* with references
VariantLists ==
    {l \in KindLists("languageVariant") :
        Len(l) > 1 => \A k \in 1..Len(l) : l[k].elements = <<>>}

Snapshots ==
    {[taxonomy |-> t, contentTypeSnippet |-> s, contentType |-> ct, language |-> l,
      asset |-> a, contentItem |-> ci, languageVariant |-> lv] :
        t \in KindLists("taxonomy"), s \in KindLists("contentTypeSnippet"),
        ct \in KindLists("contentType"), l \in KindLists("language"),
        a \in KindLists("asset"), ci \in KindLists("contentItem"),
        lv \in VariantLists}

-----------------------------------------------------------------------------
(* Reference rewriter: idTranslateHelper.replaceIdReferencesWithNewId *)

\* index of the first accumulated result whose originalId is id, 0 if none
FindResult(items, id) ==
    IF \E i \in 1..Len(items) : items[i].originalId = id
    THEN CHOOSE i \in 1..Len(items) :
            /\ items[i].originalId = id
            /\ \A j \in 1..(i - 1) : items[j].originalId # id
    ELSE 0

\* the reference-bearing fields of a language variant, in traversal order;
\* the workflow step is not among them: it is never translated
RefFields(lv) ==
    <<[field |-> "item", pos |-> 0]>>
    \o [i \in 1..Len(lv.elements) |-> [field |-> "elements", pos |-> i]]
    \o <<[field |-> "language", pos |-> 0]>>

RefId(lv, f) ==
    IF f.field = "item" THEN lv.item.id
    ELSE IF f.field = "language" THEN lv.language.id
    ELSE lv.elements[f.pos].id

SetRefId(lv, f, id) ==
    IF f.field = "item" THEN [lv EXCEPT !.item.id = id]
    ELSE IF f.field = "language" THEN [lv EXCEPT !.language.id = id]
    ELSE [lv EXCEPT !.elements[f.pos].id = id]

ResolutionError(f, id) ==
    [kind |-> "ResolutionError", field |-> f.field, pos |-> f.pos, id |-> id]

\* a rewriter that leaves a reference it cannot resolve as it is
OnNotFoundIgnore(st, f, id) == st

\* what the rewriter does with a reference it cannot resolve
OnNotFound(st, f, id) == [st EXCEPT !.error = ResolutionError(f, id)]

\* rewrite the fields from the k-th on; st is the payload as edited so far,
\* the lookups made and the error, if any
RECURSIVE RewriteFrom(_, _, _, _)
RewriteFrom(st, fields, k, items) ==
    IF k > Len(fields) \/ st.error # NoError THEN st
    ELSE LET f     == fields[k]
             id    == RefId(st.payload, f)
             found == FindResult(items, id)
             seen  == [st EXCEPT !.lookups = Append(@, [id |-> id, found |-> found # 0])]
         IN  IF found = 0
             THEN RewriteFrom(OnNotFound(seen, f, id), fields, k + 1, items)
             ELSE RewriteFrom(
                     [seen EXCEPT !.payload = SetRefId(@, f, items[found].importId)],
                     fields, k + 1, items)

replaceIdReferencesWithNewId(lv, items) ==
    RewriteFrom([payload |-> lv, lookups |-> <<>>, error |-> NoError],
                RefFields(lv), 1, items)

-----------------------------------------------------------------------------
(* The per-kind importers: validation, request, result *)

ValidationError(msg) == [kind |-> "ValidationError", message |-> msg]

\* a language importer that does not check the fallback codename
LanguageErrorUnchecked(language) == NoError

\* importLanguagesAsync: the fallback codename must be set
LanguageError(language) ==
    IF language.fallback_language.codename = ""
    THEN ValidationError("Langauge '" \o language.name \o "' has unset codename")
    ELSE NoError

\* the fallback is named by its codename, also when it is the language itself
FallbackLanguageByCodename(language) ==
    [codename |-> language.fallback_language.codename]

\* how the create-language request names the fallback language
FallbackLanguage(language) ==
    IF language.codename = language.fallback_language.codename
    THEN [id |-> NoFallbackId]
    ELSE [codename |-> language.fallback_language.codename]

LanguageRequest(language) ==
    [codename |-> language.codename, name |-> language.name,
     fallback_language |-> FallbackLanguage(language)]

\* importContentItemAsync: the type codename must be set
ContentItemError(contentItem) ==
    IF contentItem.type.codename = ""
    THEN ValidationError("Content item '" \o contentItem.codename
                         \o "' has unset type codename")
    ELSE NoError

ContentItemRequest(contentItem) ==
    [name |-> contentItem.name, type |-> [codename |-> contentItem.type.codename],
     codename |-> contentItem.codename]

\* importLanguageVariantsAsync: item and language codename must be set
LanguageVariantError(lv) ==
    IF lv.item.codename = "" THEN ValidationError("Missing item codename for item")
    ELSE IF lv.language.codename = ""
    THEN ValidationError("Missing language codename for item")
    ELSE NoError

\* a search that takes the first binary, whatever asset it belongs to
FindBinaryFileFirst(files, asset) == IF files = <<>> THEN 0 ELSE 1

\* importAssetsAsync: binaryFiles.find(m => m.asset.id === asset.id), as the
\* index of the first match, 0 if none
FindBinaryFile(files, asset) ==
    IF \E i \in 1..Len(files) : files[i].asset.id = asset.id
    THEN CHOOSE i \in 1..Len(files) :
            /\ files[i].asset.id = asset.id
            /\ \A j \in 1..(i - 1) : files[j].asset.id # asset.id
    ELSE 0

AssetError(asset) ==
    ValidationError("Could not find binary file for asset with id '"
                    \o asset.id \o "'")

UploadRequest(asset, file) ==
    [binaryData |-> file.binaryData, filename |-> asset.file_name]

\* a request that refers to the file by the id the asset has in the source
AssetRequestSourceId(asset, fileReference) ==
    [file_reference |-> [id |-> asset.id, type |-> "internal"], title |-> asset.title]

\* importAssetsAsync: the data of addAsset, with the file reference of the
\* upload
AssetRequest(asset, fileReference) ==
    [file_reference |-> fileReference, title |-> asset.title]

\* a chain none of whose branches is taken but the last
SupportedNone(type) == FALSE

\* importItemAsync: the kinds the if/else chain routes
Supported(type) == type \in ItemType

UnsupportedError(type) ==
    [kind |-> "Error", message |-> "Not supported import data type '" \o type \o "'"]

\* a handler that logs the error and does not throw it again
handleImportErrorLogOnly(err) == [thrown |-> FALSE, error |-> [kind |-> "Error", cause |-> err]]

\* handleImportError: log, then throw Error(error)
handleImportError(err) == [thrown |-> TRUE, error |-> [kind |-> "Error", cause |-> err]]

\* the results of the item replace the accumulator
PushReplace(acc, items) == items

\* the results of the item are put in front of the accumulator
PushFront(acc, items) == items \o acc

\* importAsync: importedItems.push(...importedItem)
Push(acc, items) == acc \o items

-----------------------------------------------------------------------------
(* The target instance: what a remote operation that succeeds creates *)

NextTargetId == TargetIds[Len(target) + 1]

\* id of the content item of the target that has the codename; the upsert
\* of a variant addresses its item by codename
TargetItemId(codename) ==
    LET hits == {i \in 1..Len(target) :
                    /\ target[i].kind = "contentItem"
                    /\ target[i].data.codename = codename}
    IN  IF hits = {} THEN ExistingItemId
        ELSE target[CHOOSE i \in hits : \A j \in hits : i <= j].data.id

\* the file name the target stored for an uploaded file
TargetFileName(fileId) ==
    LET hits == {i \in 1..Len(target) :
                    target[i].kind = "file" /\ target[i].data.id = fileId}
    IN  target[CHOOSE i \in hits : TRUE].data.filename

\* response.data of a remote operation that succeeded
ResponseData(op) ==
    IF op.op = "uploadBinaryFile"
    THEN [id |-> NextTargetId, type |-> "internal"]
    ELSE IF op.op = "addAsset"
    THEN [id |-> NextTargetId, title |-> op.data.title,
          fileName |-> TargetFileName(op.data.file_reference.id)]
    ELSE IF op.op = "upsertLanguageVariant"
    THEN [item |-> [id |-> TargetItemId(op.data.itemCodename)],
          language |-> [codename |-> op.data.languageCodename],
          elements |-> op.data.elements]
    ELSE IF op.op = "addLanguage"
    THEN [id |-> NextTargetId, codename |-> op.data.codename,
          name |-> op.data.name, fallback_language |-> op.data.fallback_language]
    ELSE IF op.op = "addContentItem"
    THEN [id |-> NextTargetId, codename |-> op.data.codename,
          name |-> op.data.name, type |-> op.data.type]
    ELSE [id |-> NextTargetId, codename |-> op.data.codename, name |-> op.data.name]

\* what the target keeps of a remote operation that succeeded
TargetObject(type, op) ==
    IF op.op = "uploadBinaryFile"
    THEN [kind |-> "file", data |-> [id |-> NextTargetId, filename |-> op.data.filename]]
    ELSE [kind |-> type, data |-> ResponseData(op)]

\* a result whose importId is the id of the source
ImportResultSourceId(type, original, data) ==
    [imported |-> data, original |-> original,
     importId |-> IF type = "languageVariant" THEN original.item.id ELSE original.id,
     originalId |-> IF type = "languageVariant" THEN original.item.id ELSE original.id]

\* the IImportItemResult a .then handler pushes
ImportResult(type, original, data) ==
    [imported |-> data, original |-> original,
     importId |-> IF type = "languageVariant" THEN data.item.id ELSE data.id,
     originalId |-> IF type = "languageVariant" THEN original.item.id ELSE original.id]

\* the title a .then handler reports to processItem
Title(type, op, data) ==
    IF type = "asset" THEN data.fileName
    ELSE IF type = "languageVariant"
    THEN op.data.itemCodename \o " (" \o op.data.languageCodename \o ")"
    ELSE data.name

-----------------------------------------------------------------------------
(* The run *)

NoFile == [id |-> "", type |-> ""]

Init ==
    /\ \/ /\ entry = "importAsync"
          /\ sourceData = EmptySnapshot
          /\ orderedImportItems \in InputLists
       \/ /\ entry = "importFromSourceAsync"
          /\ sourceData \in Snapshots
          /\ orderedImportItems = <<>>
    /\ config \in Configs
    /\ binaryFiles = BinaryFiles
    /\ captured = <<>>
    /\ pc = "start"
    /\ idx = 0
    /\ importedItems = <<>>
    /\ localItems = <<>>
    /\ inFlight = <<>>
    /\ pendingFile = NoFile
    /\ remoteOps = <<>>
    /\ responses = <<>>
    /\ target = <<>>
    /\ processed = <<>>
    /\ lookups = <<>>
    /\ error = NoError
    /\ returned = [state |-> "pending"]
    /\ listed = <<>>
    /\ exportData = <<>>

\* what an import never writes: its inputs, and what only a cleanup or an
\* export uses
inputs == <<entry, sourceData, binaryFiles, config, listed, exportData>>

\* the item the for-loop of importAsync is at
Current == orderedImportItems[idx]

AtItem == pc = "loop" /\ idx <= Len(orderedImportItems)

\* the answer of the target to a remote operation
Answer(op, ok) == [item |-> op.item, op |-> op.op, ok |-> ok]

\* an error leaves importAsync: the promise the caller holds is rejected
Throw(e) ==
    /\ pc' = "failed"
    /\ error' = e
    /\ returned' = [state |-> "rejected", value |-> e]

\* a remote operation is issued and the importer goes on without awaiting it
IssueNotAwaited(name, data) ==
    LET op == [op |-> name, item |-> idx, data |-> data]
    IN  /\ inFlight' = Append(inFlight, op)
        /\ remoteOps' = Append(remoteOps, op)
        /\ pc' = "loop"
        /\ UNCHANGED <<error, returned>>

\* a remote operation is issued and awaited
Issue(name, data) ==
    LET op == [op |-> name, item |-> idx, data |-> data]
    IN  /\ inFlight' = Append(inFlight, op)
        /\ remoteOps' = Append(remoteOps, op)
        /\ pc' = "awaiting"
        /\ UNCHANGED <<error, returned>>

\* importFromSourceAsync: plan, then importAsync
ImportFromSourceAsync ==
    /\ pc = "start"
    /\ entry = "importFromSourceAsync"
    /\ orderedImportItems' = prepareImportData(sourceData)
    /\ captured' = orderedImportItems'
    /\ idx' = 1
    /\ pc' = "loop"
    /\ UNCHANGED <<responses, inputs, importedItems, localItems, inFlight, pendingFile,
                   remoteOps, target, processed, lookups, error, returned>>

\* importAsync called with a prepared list
ImportAsync ==
    /\ pc = "start"
    /\ entry = "importAsync"
    /\ captured' = orderedImportItems
    /\ idx' = 1
    /\ pc' = "loop"
    /\ UNCHANGED <<responses, inputs, orderedImportItems, importedItems, localItems, inFlight,
                   pendingFile, remoteOps, target, processed, lookups, error,
                   returned>>

\* importItemAsync -> importTaxonomiesAsync / importContentTypesAsync /
\* importContentTypeSnippetsAsync: the payload is sent as it is
ImportPassThrough(type, name) ==
    /\ AtItem
    /\ Current.type = type
    /\ Issue(name, Current.item)
    /\ localItems' = <<>>
    /\ UNCHANGED <<responses, inputs, captured, orderedImportItems, idx, importedItems,
                   pendingFile, target, processed, lookups>>

ImportTaxonomiesAsync == ImportPassThrough("taxonomy", "addTaxonomy")

ImportContentTypesAsync == ImportPassThrough("contentType", "addContentType")

ImportContentTypeSnippetsAsync ==
    ImportPassThrough("contentTypeSnippet", "addContentTypeSnippet")

\* a configuration that never passes languages over
SkipLanguagesNever(cfg) == FALSE

\* importItemAsync: config.skip?.languages === true
SkipLanguages(cfg) == cfg.skipLanguages = TRUE

\* importItemAsync, kind language, config.skip.languages: return []
SkipLanguage ==
    /\ AtItem
    /\ Current.type = "language"
    /\ SkipLanguages(config)
    /\ importedItems' = Push(importedItems, <<>>)
    /\ idx' = idx + 1
    /\ UNCHANGED <<responses, inputs, captured, orderedImportItems, pc, localItems, inFlight,
                   pendingFile, remoteOps, target, processed, lookups, error,
                   returned>>

ImportLanguagesAsync ==
    /\ AtItem
    /\ Current.type = "language"
    /\ ~SkipLanguages(config)
    /\ localItems' = <<>>
    /\ IF LanguageError(Current.item) # NoError
       THEN /\ Throw(LanguageError(Current.item))
            /\ UNCHANGED <<inFlight, remoteOps>>
       ELSE Issue("addLanguage", LanguageRequest(Current.item))
    /\ UNCHANGED <<responses, inputs, captured, orderedImportItems, idx, importedItems,
                   pendingFile, target, processed, lookups>>

ImportContentItemAsync ==
    /\ AtItem
    /\ Current.type = "contentItem"
    /\ localItems' = <<>>
    /\ IF ContentItemError(Current.item) # NoError
       THEN /\ Throw(ContentItemError(Current.item))
            /\ UNCHANGED <<inFlight, remoteOps>>
       ELSE Issue("addContentItem", ContentItemRequest(Current.item))
    /\ UNCHANGED <<responses, inputs, captured, orderedImportItems, idx, importedItems,
                   pendingFile, target, processed, lookups>>

\* importAssetsAsync up to the first await: find the binary, upload it
ImportAssetsAsync ==
    /\ AtItem
    /\ Current.type = "asset"
    /\ localItems' = <<>>
    /\ LET found == FindBinaryFile(binaryFiles, Current.item)
       IN  IF found = 0
           THEN /\ Throw(AssetError(Current.item))
                /\ UNCHANGED <<inFlight, remoteOps>>
           ELSE Issue("uploadBinaryFile", UploadRequest(Current.item, binaryFiles[found]))
    /\ UNCHANGED <<responses, inputs, captured, orderedImportItems, idx, importedItems,
                   pendingFile, target, processed, lookups>>

\* importItemAsync, the else branch
NotSupported ==
    /\ AtItem
    /\ ~Supported(Current.type)
    /\ Throw(UnsupportedError(Current.type))
    /\ UNCHANGED <<responses, inputs, captured, orderedImportItems, idx, importedItems,
                   localItems, inFlight, pendingFile, remoteOps, target, processed,
                   lookups>>

\* importLanguageVariantsAsync: the two codename checks
ImportLanguageVariantsAsync ==
    /\ AtItem
    /\ Current.type = "languageVariant"
    /\ localItems' = <<>>
    /\ IF LanguageVariantError(Current.item) # NoError
       THEN Throw(LanguageVariantError(Current.item))
       ELSE pc' = "rewriting" /\ UNCHANGED <<error, returned>>
    /\ UNCHANGED <<responses, inputs, captured, orderedImportItems, idx, importedItems,
                   inFlight, pendingFile, remoteOps, target, processed, lookups>>

\* the workflow step of the variant stays the one of the source
SetWorkflowStepKept(lv) == lv

\* the workflow step of the variant is set to the configured one
SetWorkflowStep(lv) ==
    [lv EXCEPT !.workflow_step.id = config.workflowIdForImportedItems]

\* a request that carries the elements as they were read before the rewrite
UpsertRequestStale(before, lv) ==
    [itemCodename |-> before.item.codename,
     languageCodename |-> before.language.codename,
     elements |-> before.elements]

\* the request of the upsert: addressed by the two codenames read before the
\* rewrite, carrying the elements of the variant object as it is now
UpsertRequest(before, lv) ==
    [itemCodename |-> before.item.codename,
     languageCodename |-> before.language.codename,
     elements |-> lv.elements]

\* importLanguageVariantsAsync: rewrite the variant object in place, set its
\* workflow step, submit its elements
RewriteLanguageVariant ==
    /\ pc = "rewriting"
    /\ LET rw == replaceIdReferencesWithNewId(Current.item, importedItems)
           lv == SetWorkflowStep(rw.payload)
       IN  /\ lookups' = lookups \o [i \in 1..Len(rw.lookups) |->
                            [item |-> idx, id |-> rw.lookups[i].id,
                             found |-> rw.lookups[i].found]]
           /\ IF rw.error # NoError
              THEN /\ orderedImportItems' =
                          [orderedImportItems EXCEPT ![idx].item = rw.payload]
                   /\ Throw(rw.error)
                   /\ UNCHANGED <<inFlight, remoteOps>>
              ELSE /\ orderedImportItems' = [orderedImportItems EXCEPT ![idx].item = lv]
                   /\ Issue("upsertLanguageVariant", UpsertRequest(Current.item, lv))
    /\ UNCHANGED <<responses, inputs, captured, idx, importedItems, localItems, pendingFile,
                   target, processed>>

\* the upload of importAssetsAsync succeeded: create the asset with the file
\* reference it returned
UploadResolves ==
    /\ pc = "awaiting"
    /\ responses' = Append(responses, Answer(Head(inFlight), TRUE))
    /\ Head(inFlight).op = "uploadBinaryFile"
    /\ LET op   == Head(inFlight)
           file == ResponseData(op)
           next == [op |-> "addAsset", item |-> idx,
                    data |-> AssetRequest(Current.item, file)]
       IN  /\ target' = Append(target, TargetObject("asset", op))
           /\ pendingFile' = file
           /\ inFlight' = Append(Tail(inFlight), next)
           /\ remoteOps' = Append(remoteOps, next)
    /\ UNCHANGED <<inputs, captured, orderedImportItems, pc, idx, importedItems,
                   localItems, processed, lookups, error, returned>>

RemoteError(op) == [kind |-> "RemoteRejection", op |-> op.op]

\* the upload failed: the await has no .catch, the error leaves as it is
UploadRejects ==
    /\ pc = "awaiting"
    /\ responses' = Append(responses, Answer(Head(inFlight), FALSE))
    /\ Head(inFlight).op = "uploadBinaryFile"
    /\ inFlight' = Tail(inFlight)
    /\ Throw(RemoteError(Head(inFlight)))
    /\ UNCHANGED <<inputs, captured, orderedImportItems, idx, importedItems,
                   localItems, pendingFile, remoteOps, target, processed, lookups>>

\* the loop takes the results and then takes up the same item again
ContinueSameItem(items) ==
    /\ importedItems' = Push(importedItems, items)
    /\ idx' = idx
    /\ pc' = "loop"
    /\ UNCHANGED <<error, returned>>

\* the importer returns its results: importAsync pushes them and moves on
Continue(items) ==
    /\ importedItems' = Push(importedItems, items)
    /\ idx' = idx + 1
    /\ pc' = "loop"
    /\ UNCHANGED <<error, returned>>

\* a .catch handler that hands the results of the item to the accumulator
\* before it throws
CaughtKeepsResults(e, items) ==
    /\ Throw(handleImportError(e).error)
    /\ importedItems' = Push(importedItems, items)
    /\ UNCHANGED idx

\* a .catch handler ran handleImportError on e
Caught(e, items) ==
    LET h == handleImportError(e)
    IN  IF h.thrown
        THEN Throw(h.error) /\ UNCHANGED <<importedItems, idx>>
        ELSE Continue(items)

\* a processItem that calls config.processItem without looking whether one
\* is configured
ProcessItemCallsUnguarded(title, type, data) ==
    <<[title |-> title, type |-> type, data |-> data, item |-> idx]>>

\* processItem: the call config.processItem receives, if one is configured
ProcessItemCalls(title, type, data) ==
    IF config.hasProcessItem
    THEN <<[title |-> title, type |-> type, data |-> data, item |-> idx]>>
    ELSE <<>>

\* the .then handler of a create/upsert: push the result, report progress
Then ==
    /\ pc = "awaiting"
    /\ responses' = Append(responses, Answer(Head(inFlight), TRUE))
    /\ Head(inFlight).op # "uploadBinaryFile"
    /\ LET op   == Head(inFlight)
           type == Current.type
           data == ResponseData(op)
       IN  /\ inFlight' = Tail(inFlight)
           /\ target' = Append(target, TargetObject(type, op))
           /\ localItems' = Append(localItems, ImportResult(type, Current.item, data))
           /\ processed' = processed \o ProcessItemCalls(Title(type, op, data), type, data)
           /\ Continue(localItems')
    /\ UNCHANGED <<inputs, captured, orderedImportItems, pendingFile, remoteOps,
                   lookups>>

\* the .then handler, with config.processItem throwing: the .catch handler
\* that follows it in the chain receives the error
ThenProcessItemThrows ==
    /\ pc = "awaiting"
    /\ responses' = Append(responses, Answer(Head(inFlight), TRUE))
    /\ Head(inFlight).op # "uploadBinaryFile"
    /\ config.hasProcessItem
    /\ LET op   == Head(inFlight)
           type == Current.type
           data == ResponseData(op)
       IN  /\ inFlight' = Tail(inFlight)
           /\ target' = Append(target, TargetObject(type, op))
           /\ localItems' = Append(localItems, ImportResult(type, Current.item, data))
           /\ processed' = processed \o ProcessItemCalls(Title(type, op, data), type, data)
           /\ Caught([kind |-> "CallbackError", item |-> idx], localItems')
    /\ UNCHANGED <<inputs, captured, orderedImportItems, pendingFile, remoteOps,
                   lookups>>

\* a .catch handler that, before it throws, deletes the file the asset of
\* the item had uploaded
CatchRollback ==
    /\ pc = "awaiting"
    /\ responses' = Append(responses, Answer(Head(inFlight), FALSE))
    /\ Head(inFlight).op # "uploadBinaryFile"
    /\ inFlight' = Tail(inFlight)
    /\ Caught(RemoteError(Head(inFlight)), localItems)
    /\ IF Head(inFlight).op = "addAsset"
       THEN /\ target' = SubSeq(target, 1, Len(target) - 1)
            /\ remoteOps' = Append(remoteOps, [op |-> "deleteFile", item |-> idx,
                                               data |-> pendingFile])
       ELSE UNCHANGED <<target, remoteOps>>
    /\ UNCHANGED <<inputs, captured, orderedImportItems, localItems, pendingFile,
                   processed, lookups>>

\* the create/upsert was rejected: the .catch handler
Catch ==
    /\ pc = "awaiting"
    /\ responses' = Append(responses, Answer(Head(inFlight), FALSE))
    /\ Head(inFlight).op # "uploadBinaryFile"
    /\ inFlight' = Tail(inFlight)
    /\ Caught(RemoteError(Head(inFlight)), localItems)
    /\ UNCHANGED <<inputs, captured, orderedImportItems, localItems, pendingFile,
                   remoteOps, target, processed, lookups>>

\* importAsync: the list is exhausted, return importedItems
Return ==
    /\ pc = "loop"
    /\ idx > Len(orderedImportItems)
    /\ pc' = "done"
    /\ returned' = [state |-> "resolved", value |-> importedItems]
    /\ UNCHANGED <<responses, inputs, captured, orderedImportItems, idx, importedItems,
                   localItems, inFlight, pendingFile, remoteOps, target, processed,
                   lookups, error>>

Next ==
    \/ ImportFromSourceAsync
    \/ ImportAsync
    \/ ImportTaxonomiesAsync
    \/ ImportContentTypesAsync
    \/ ImportContentTypeSnippetsAsync
    \/ SkipLanguage
    \/ ImportLanguagesAsync
    \/ ImportContentItemAsync
    \/ ImportAssetsAsync
    \/ NotSupported
    \/ ImportLanguageVariantsAsync
    \/ RewriteLanguageVariant
    \/ UploadResolves
    \/ UploadRejects
    \/ Then
    \/ ThenProcessItemThrows
    \/ Catch
    \/ Return

Spec == Init /\ [][Next]_vars

-----------------------------------------------------------------------------
(* The project a cleanup or an export runs against *)

ProjectEntity(kind, id, name) == [kind |-> kind, data |-> [id |-> id, name |-> name]]

ProjectAsset(id, fileName) == [kind |-> "asset", data |-> [id |-> id, fileName |-> fileName]]

ProjectVariant(itemId, languageId) ==
    [kind |-> "languageVariant",
     data |-> [item |-> [id |-> itemId], language |-> [id |-> languageId]]]

\* the entities a project may hold, in the order its listings return them
ProjectPool ==
    <<ProjectEntity("contentItem", "item-home", "Home"),
      ProjectEntity("contentItem", "item-about", "About"),
      ProjectVariant("item-home", "lang-en"),
      ProjectEntity("contentType", "type-article", "Article"),
      ProjectEntity("contentTypeSnippet", "snip-meta", "Meta"),
      ProjectEntity("taxonomy", "tax-tags", "Tags"),
      ProjectEntity("language", "lang-en", "English"),
      ProjectAsset("asset-logo", "logo.png"),
      ProjectEntity("assetFolder", "folder-images", "Images"),
      ProjectEntity("assetFolder", "folder-docs", "Docs"),
      ProjectEntity("workflow", "wf-default", "Default")>>

\* the i-th smallest number of the set S
IthOf(S, i) == CHOOSE x \in S : Cardinality({y \in S : y < x}) = i - 1

\* the projects of at most MaxEntities entities
Projects ==
    {[i \in 1..Cardinality(S) |-> ProjectPool[IthOf(S, i)]] :
        S \in {T \in SUBSET (1..Len(ProjectPool)) : Cardinality(T) <= MaxEntities}}

\* what a listing of one kind returns
EntitiesOf(project, kind) ==
    LET hits == SelectSeq(project, LAMBDA e : e.kind = kind)
    IN  [i \in 1..Len(hits) |-> hits[i].data]

-----------------------------------------------------------------------------
(* The cleanup sweep: CleanService *)

CleanConfigs == [projectId : {"project"}, hasProcessItem : BOOLEAN]

InitClean ==
    /\ entry = "cleanAllAsync"
    /\ target \in Projects
    /\ captured = target
    /\ config \in CleanConfigs
    /\ pc = "start"
    /\ idx = 0
    /\ listed = <<>>
    /\ inFlight = <<>>
    /\ remoteOps = <<>>
    /\ responses = <<>>
    /\ processed = <<>>
    /\ error = NoError
    /\ returned = [state |-> "pending"]
    /\ sourceData = EmptySnapshot
    /\ orderedImportItems = <<>>
    /\ binaryFiles = <<>>
    /\ importedItems = <<>>
    /\ localItems = <<>>
    /\ pendingFile = NoFile
    /\ lookups = <<>>
    /\ exportData = <<>>

\* what a cleanup never writes
cleanInputs == <<entry, config, captured, sourceData, orderedImportItems, binaryFiles,
                 importedItems, localItems, pendingFile, lookups, exportData>>

\* an order that deletes the content types ahead of the content items
CleanOrderTypesFirst ==
    <<"contentType", "contentItem", "contentTypeSnippet", "taxonomy", "asset",
      "assetFolder">>

\* cleanAllAsync: the kinds in the order their sweeps are awaited
CleanOrder ==
    <<"contentItem", "contentType", "contentTypeSnippet", "taxonomy", "asset",
      "assetFolder">>

\* the kind the sweep is at
CleanKind == CleanOrder[idx]

ListOp(kind) ==
    IF kind = "contentItem" THEN "listContentItems"
    ELSE IF kind = "contentType" THEN "listContentTypes"
    ELSE IF kind = "contentTypeSnippet" THEN "listContentTypeSnippets"
    ELSE IF kind = "taxonomy" THEN "listTaxonomies"
    ELSE IF kind = "asset" THEN "listAssets"
    ELSE "listAssetFolders"

DeleteOp(kind) ==
    IF kind = "contentItem" THEN "deleteContentItem"
    ELSE IF kind = "contentType" THEN "deleteContentType"
    ELSE IF kind = "contentTypeSnippet" THEN "deleteContentTypeSnippet"
    ELSE IF kind = "taxonomy" THEN "deleteTaxonomy"
    ELSE IF kind = "asset" THEN "deleteAsset"
    ELSE "modifyAssetFolders"

\* the title a .then handler of the sweep reports
CleanTitle(kind, e) == IF kind = "asset" THEN e.fileName ELSE e.name

\* CleanService.processItem: the call config.processItem receives, if one
\* is configured
CleanProcessItem(kind, e) ==
    IF config.hasProcessItem
    THEN <<[title |-> CleanTitle(kind, e), type |-> kind, data |-> e]>>
    ELSE <<>>

RECURSIVE CleanProcessItems(_, _)
CleanProcessItems(kind, es) ==
    IF es = <<>> THEN <<>>
    ELSE CleanProcessItem(kind, Head(es)) \o CleanProcessItems(kind, Tail(es))

\* a handler that throws the error again once it has logged it
handleCleanErrorRethrow(err) == [thrown |-> TRUE, error |-> err]

\* handleCleanError: console.log(error), nothing else
handleCleanError(err) == [thrown |-> FALSE, error |-> err]

\* the project without the entities of the kind that have one of the ids
Removed(project, kind, ids) ==
    SelectSeq(project, LAMBDA e : ~(e.kind = kind /\ e.data.id \in ids))

CleanIssue(name, data) ==
    LET op == [op |-> name, kind |-> CleanKind, data |-> data]
    IN  /\ inFlight' = <<op>>
        /\ remoteOps' = Append(remoteOps, op)

CleanAnswer(ok) ==
    responses' = Append(responses, [op |-> Head(inFlight).op, kind |-> Head(inFlight).kind,
                                    data |-> Head(inFlight).data, ok |-> ok])

\* cleanAllAsync is called
CleanAllAsync ==
    /\ pc = "start"
    /\ pc' = "kind"
    /\ idx' = 1
    /\ UNCHANGED <<cleanInputs, target, listed, inFlight, remoteOps, responses,
                   processed, error, returned>>

\* clean<Kind>Async: the listing of the kind is issued and awaited
CleanList ==
    /\ pc = "kind"
    /\ idx <= Len(CleanOrder)
    /\ CleanIssue(ListOp(CleanKind), <<>>)
    /\ pc' = "listing"
    /\ UNCHANGED <<cleanInputs, target, listed, idx, responses, processed, error,
                   returned>>

\* the listing returned the entities of the kind
CleanListResolves ==
    /\ pc = "listing"
    /\ CleanAnswer(TRUE)
    /\ inFlight' = <<>>
    /\ listed' = EntitiesOf(target, CleanKind)
    /\ pc' = "loop"
    /\ UNCHANGED <<cleanInputs, target, idx, remoteOps, processed, error, returned>>

\* the listing failed: the await has no .catch, cleanAllAsync logs the
\* error and throws it
CleanListRejects ==
    /\ pc = "listing"
    /\ CleanAnswer(FALSE)
    /\ inFlight' = <<>>
    /\ Throw(RemoteError(Head(inFlight)))
    /\ UNCHANGED <<cleanInputs, target, listed, idx, remoteOps, processed>>

\* the for-loop of clean<Kind>Async: the delete of the next entity is
\* issued and awaited
CleanDelete ==
    /\ pc = "loop"
    /\ CleanKind # "assetFolder"
    /\ listed # <<>>
    /\ CleanIssue(DeleteOp(CleanKind), [id |-> Head(listed).id])
    /\ pc' = "deleting"
    /\ UNCHANGED <<cleanInputs, target, listed, idx, responses, processed, error,
                   returned>>

\* cleanAssetFoldersAsync: one call that removes every folder listed
ModifyAssetFolders ==
    /\ pc = "loop"
    /\ CleanKind = "assetFolder"
    /\ listed # <<>>
    /\ CleanIssue(DeleteOp(CleanKind),
                  [i \in 1..Len(listed) |->
                      [op |-> "remove", reference |-> [id |-> listed[i].id]]])
    /\ pc' = "deleting"
    /\ UNCHANGED <<cleanInputs, target, listed, idx, responses, processed, error,
                   returned>>

\* the entities the operation in flight deletes
Deleting == IF CleanKind = "assetFolder" THEN listed ELSE <<Head(listed)>>

\* the .then handler of a delete: report the entities deleted. A
\* config.processItem that throws on the last of them is caught by the
\* .catch handler behind it, which leaves this same state
DeleteThen ==
    /\ pc = "deleting"
    /\ CleanAnswer(TRUE)
    /\ inFlight' = <<>>
    /\ target' = Removed(target, CleanKind, {Deleting[i].id : i \in 1..Len(Deleting)})
    /\ processed' = processed \o CleanProcessItems(CleanKind, Deleting)
    /\ listed' = SubSeq(listed, Len(Deleting) + 1, Len(listed))
    /\ pc' = "loop"
    /\ UNCHANGED <<cleanInputs, idx, remoteOps, error, returned>>

\* the .then handler of cleanAssetFoldersAsync, config.processItem throwing
\* on a folder that is not the last: the folders behind it are not
\* reported, the .catch handler logs the error
ModifyThenProcessItemThrows ==
    /\ pc = "deleting"
    /\ CleanKind = "assetFolder"
    /\ config.hasProcessItem
    /\ CleanAnswer(TRUE)
    /\ inFlight' = <<>>
    /\ target' = Removed(target, CleanKind, {listed[i].id : i \in 1..Len(listed)})
    /\ \E k \in 1..(Len(listed) - 1) :
          processed' = processed \o CleanProcessItems(CleanKind, SubSeq(listed, 1, k))
    /\ listed' = <<>>
    /\ pc' = "loop"
    /\ UNCHANGED <<cleanInputs, idx, remoteOps, error, returned>>

\* the delete failed: the .catch handler runs handleCleanError and the loop
\* goes on
DeleteCatch ==
    /\ pc = "deleting"
    /\ CleanAnswer(FALSE)
    /\ inFlight' = <<>>
    /\ LET h == handleCleanError(RemoteError(Head(inFlight)))
       IN  IF h.thrown
           THEN Throw(h.error) /\ UNCHANGED listed
           ELSE /\ listed' = SubSeq(listed, Len(Deleting) + 1, Len(listed))
                /\ pc' = "loop"
                /\ UNCHANGED <<error, returned>>
    /\ UNCHANGED <<cleanInputs, target, idx, remoteOps, processed>>

\* clean<Kind>Async returns: cleanAllAsync awaits the sweep of the next kind
CleanKindDone ==
    /\ pc = "loop"
    /\ listed = <<>>
    /\ idx' = idx + 1
    /\ pc' = "kind"
    /\ UNCHANGED <<cleanInputs, target, listed, inFlight, remoteOps, responses,
                   processed, error, returned>>

\* cleanAllAsync returns its result
CleanReturn ==
    /\ pc = "kind"
    /\ idx > Len(CleanOrder)
    /\ pc' = "done"
    /\ returned' = [state |-> "resolved",
                    value |-> [metadata |-> [projectId |-> config.projectId]]]
    /\ UNCHANGED <<cleanInputs, target, listed, idx, inFlight, remoteOps, responses,
                   processed, error>>

NextClean ==
    \/ CleanAllAsync
    \/ CleanList
    \/ CleanListResolves
    \/ CleanListRejects
    \/ CleanDelete
    \/ ModifyAssetFolders
    \/ DeleteThen
    \/ ModifyThenProcessItemThrows
    \/ DeleteCatch
    \/ CleanKindDone
    \/ CleanReturn

SpecClean == InitClean /\ [][NextClean]_vars

-----------------------------------------------------------------------------
(* The export: ExportService *)

\* the kinds config.exportFilter may name
ExportKinds ==
    {"asset", "assetFolder", "binaryFile", "contentItem", "collection", "contentType",
     "contentTypeSnippet", "language", "languageVariant", "taxonomy", "webhook",
     "workflow"}

\* config.exportFilter: not given, or every kind but at most MaxExcluded
ExportFilters ==
    {[given |-> FALSE, kinds |-> {}]}
    \cup {[given |-> TRUE, kinds |-> ExportKinds \ E] :
            E \in {F \in SUBSET ExportKinds : Cardinality(F) <= MaxExcluded}}

ExportConfigs ==
    [projectId : {"project"}, hasOnExport : BOOLEAN, skipValidation : BOOLEAN,
     exportFilter : ExportFilters]

\* exportAllAsync: exportItems, config.exportFilter?.includes(kind) ?? true
exportItems(cfg) ==
    [k \in ExportKinds |->
        IF cfg.exportFilter.given THEN k \in cfg.exportFilter.kinds ELSE TRUE]

\* the awaits of exportAllAsync behind the validation, in the order they
\* are evaluated: the three constants, then the fields of data that await
ExportPlan ==
    <<[name |-> "contentTypes", local |-> TRUE, kind |-> "contentType",
       op |-> "listContentTypes"],
      [name |-> "languages", local |-> TRUE, kind |-> "language",
       op |-> "listLanguages"],
      [name |-> "contentItems", local |-> TRUE, kind |-> "contentItem",
       op |-> "listContentItems"],
      [name |-> "contentTypeSnippets", local |-> FALSE, kind |-> "contentTypeSnippet",
       op |-> "listContentTypeSnippets"],
      [name |-> "taxonomies", local |-> FALSE, kind |-> "taxonomy",
       op |-> "listTaxonomies"],
      [name |-> "webhooks", local |-> FALSE, kind |-> "webhook",
       op |-> "listWebhooks"],
      [name |-> "workflows", local |-> FALSE, kind |-> "workflow",
       op |-> "listWorkflows"],
      [name |-> "contentItems", local |-> FALSE, kind |-> "contentItem",
       op |-> "listContentItems"],
      [name |-> "collections", local |-> FALSE, kind |-> "collection",
       op |-> "listCollections"],
      [name |-> "languageVariants", local |-> FALSE, kind |-> "languageVariant",
       op |-> "listLanguageVariantsOfItem"],
      [name |-> "assets", local |-> FALSE, kind |-> "asset",
       op |-> "listAssets"],
      [name |-> "assetFolders", local |-> FALSE, kind |-> "assetFolder",
       op |-> "listAssetFolders"]>>

\* the await exportAllAsync is at
ExportStep == ExportPlan[idx]

\* whether exportAllAsync calls the export method of the step
StepRuns(s, x) ==
    IF s.local
    THEN IF s.name = "contentItems" THEN x["contentItem"] \/ x["languageVariant"]
         ELSE TRUE
    ELSE x[s.kind]

\* whether the export method of the step calls processItem: only
\* exportContentTypesAsync is told by its caller
StepReports(s, x) == IF s.name = "contentTypes" THEN x["contentType"] ELSE TRUE

NoExportData ==
    [contentTypes |-> <<>>, contentTypeSnippets |-> <<>>, taxonomies |-> <<>>,
     webhooks |-> <<>>, workflows |-> <<>>, contentItems |-> <<>>,
     collections |-> <<>>, languageVariants |-> <<>>, assets |-> <<>>,
     languages |-> <<>>, assetFolders |-> <<>>]

NoListed ==
    [contentTypes |-> <<>>, languages |-> <<>>, contentItems |-> <<>>,
     isInconsistentExport |-> FALSE]

InitExport ==
    /\ entry = "exportAllAsync"
    /\ target \in {p \in Projects : Len(p) <= MaxExported}
    /\ captured = target
    /\ config \in ExportConfigs
    /\ pc = "start"
    /\ idx = 0
    /\ listed = NoListed
    /\ exportData = NoExportData
    /\ inFlight = <<>>
    /\ remoteOps = <<>>
    /\ responses = <<>>
    /\ processed = <<>>
    /\ error = NoError
    /\ returned = [state |-> "pending"]
    /\ sourceData = EmptySnapshot
    /\ orderedImportItems = <<>>
    /\ binaryFiles = <<>>
    /\ importedItems = <<>>
    /\ localItems = <<>>
    /\ pendingFile = NoFile
    /\ lookups = <<>>

\* what an export never writes
exportInputs == <<entry, config, captured, target, sourceData, orderedImportItems,
                  binaryFiles, importedItems, localItems, pendingFile, lookups>>

ExportIssue(name, data) ==
    LET op == [op |-> name, step |-> idx, data |-> data]
    IN  /\ inFlight' = <<op>>
        /\ remoteOps' = Append(remoteOps, op)
        /\ pc' = "awaiting"

ExportAnswer(ok) ==
    responses' = Append(responses, [op |-> Head(inFlight).op, step |-> Head(inFlight).step,
                                    ok |-> ok])

\* exportAllAsync is called: the project validation is run unless
\* config.skipValidation
ExportAllAsync ==
    /\ pc = "start"
    /\ idx' = 1
    /\ IF config.skipValidation
       THEN pc' = "step" /\ UNCHANGED <<inFlight, remoteOps>>
       ELSE /\ inFlight' = <<[op |-> "validateProjectContent", step |-> 0,
                              data |-> [projectId |-> config.projectId]]>>
            /\ remoteOps' = Append(remoteOps, Head(inFlight'))
            /\ pc' = "validating"
    /\ UNCHANGED <<exportInputs, listed, exportData, responses, processed, error,
                   returned>>

\* exportProjectValidationAsync returned the report, with or without issues
ValidationResolves ==
    /\ pc = "validating"
    /\ ExportAnswer(TRUE)
    /\ inFlight' = <<>>
    /\ \E issues \in BOOLEAN : listed' = [listed EXCEPT !.isInconsistentExport = issues]
    /\ pc' = "step"
    /\ UNCHANGED <<exportInputs, exportData, idx, remoteOps, processed, error, returned>>

\* a remote call of the export failed: nothing catches the error
ExportRejects ==
    /\ pc \in {"validating", "awaiting"}
    /\ ExportAnswer(FALSE)
    /\ inFlight' = <<>>
    /\ Throw(RemoteError(Head(inFlight)))
    /\ UNCHANGED <<exportInputs, listed, exportData, idx, remoteOps, processed>>

\* the conditional of the step is false: the constant or the field is []
ExportSkip ==
    /\ pc = "step"
    /\ idx <= Len(ExportPlan)
    /\ ~StepRuns(ExportStep, exportItems(config))
    /\ idx' = idx + 1
    /\ UNCHANGED <<exportInputs, listed, exportData, pc, inFlight, remoteOps, responses,
                   processed, error, returned>>

\* export<Kind>Async: the listing of the kind is issued and awaited
ExportList ==
    /\ pc = "step"
    /\ idx <= Len(ExportPlan)
    /\ StepRuns(ExportStep, exportItems(config))
    /\ ExportStep.name # "languageVariants"
    /\ ExportIssue(ExportStep.op, <<>>)
    /\ UNCHANGED <<exportInputs, listed, exportData, idx, responses, processed, error,
                   returned>>

\* ExportService.processItem: the call config.onExport receives, if one is
\* configured
ExportProcessItem(title, type, data) ==
    IF config.hasOnExport
    THEN <<[title |-> title, type |-> type, data |-> data]>>
    ELSE <<>>

ExportTitle(kind, e) == IF kind = "asset" THEN e.fileName ELSE e.name

RECURSIVE ExportProcessItems(_, _)
ExportProcessItems(kind, es) ==
    IF es = <<>> THEN <<>>
    ELSE ExportProcessItem(ExportTitle(kind, Head(es)), kind, Head(es))
            \o ExportProcessItems(kind, Tail(es))

\* the listing returned: every entity is reported, the list is the
\* constant or the field of the step
ExportListResolves ==
    /\ pc = "awaiting"
    /\ ExportStep.name # "languageVariants"
    /\ ExportAnswer(TRUE)
    /\ inFlight' = <<>>
    /\ LET items == EntitiesOf(target, ExportStep.kind)
       IN  /\ processed' =
                  IF StepReports(ExportStep, exportItems(config))
                  THEN processed \o ExportProcessItems(ExportStep.kind, items)
                  ELSE processed
           /\ IF ExportStep.local
              THEN /\ listed' = [listed EXCEPT ![ExportStep.name] = items]
                   /\ UNCHANGED exportData
              ELSE /\ exportData' = [exportData EXCEPT ![ExportStep.name] = items]
                   /\ UNCHANGED listed
    /\ idx' = idx + 1
    /\ pc' = "step"
    /\ UNCHANGED <<exportInputs, remoteOps, error, returned>>

\* the content items whose variants exportLanguageVariantsAsync has listed
VariantsListed ==
    Cardinality({k \in 1..Len(remoteOps) : remoteOps[k].op = "listLanguageVariantsOfItem"})

\* exportLanguageVariantsAsync: the variants of the next content item are
\* listed
ExportLanguageVariantsAsync ==
    /\ pc = "step"
    /\ idx <= Len(ExportPlan)
    /\ ExportStep.name = "languageVariants"
    /\ StepRuns(ExportStep, exportItems(config))
    /\ VariantsListed < Len(listed.contentItems)
    /\ ExportIssue(ExportStep.op, [id |-> listed.contentItems[VariantsListed + 1].id])
    /\ UNCHANGED <<exportInputs, listed, exportData, idx, responses, processed, error,
                   returned>>

\* the title of a variant: the name of its item and of its language
VariantTitle(contentItem, languageVariant) ==
    LET hits == SelectSeq(listed.languages, LAMBDA l : l.id = languageVariant.language.id)
    IN  contentItem.name \o " (" \o (IF hits = <<>> THEN "" ELSE hits[1].name) \o ")"

RECURSIVE ExportVariants(_, _)
ExportVariants(contentItem, lvs) ==
    IF lvs = <<>> THEN <<>>
    ELSE ExportProcessItem(VariantTitle(contentItem, Head(lvs)), "languageVariant", Head(lvs))
            \o ExportVariants(contentItem, Tail(lvs))

\* the variants of the content item were returned: they are collected and
\* reported
LanguageVariantsResolve ==
    /\ pc = "awaiting"
    /\ ExportStep.name = "languageVariants"
    /\ ExportAnswer(TRUE)
    /\ inFlight' = <<>>
    /\ LET contentItem == listed.contentItems[VariantsListed]
           lvs == SelectSeq(EntitiesOf(target, "languageVariant"),
                            LAMBDA v : v.item.id = contentItem.id)
       IN  /\ exportData' = [exportData EXCEPT !.languageVariants = @ \o lvs]
           /\ processed' = processed \o ExportVariants(contentItem, lvs)
    /\ pc' = "step"
    /\ UNCHANGED <<exportInputs, listed, idx, remoteOps, error, returned>>

\* exportLanguageVariantsAsync returns the variants it collected
LanguageVariantsReturn ==
    /\ pc = "step"
    /\ idx <= Len(ExportPlan)
    /\ ExportStep.name = "languageVariants"
    /\ StepRuns(ExportStep, exportItems(config))
    /\ VariantsListed = Len(listed.contentItems)
    /\ idx' = idx + 1
    /\ UNCHANGED <<exportInputs, listed, exportData, pc, inFlight, remoteOps, responses,
                   processed, error, returned>>

\* exportAllAsync returns: contentTypes and languages of data are the
\* constants, or [] when their kind is not exported; dataOverview, left
\* out, holds the lengths of the lists of data
ExportReturn ==
    /\ pc = "step"
    /\ idx > Len(ExportPlan)
    /\ pc' = "done"
    /\ exportData' =
          [exportData EXCEPT
              !.contentTypes = IF exportItems(config)["contentType"]
                               THEN listed.contentTypes ELSE <<>>,
              !.languages = IF exportItems(config)["language"]
                            THEN listed.languages ELSE <<>>]
    /\ returned' = [state |-> "resolved",
                    value |-> [metadata |-> [projectId |-> config.projectId,
                                             isInconsistentExport |->
                                                 listed.isInconsistentExport],
                               data |-> exportData']]
    /\ UNCHANGED <<exportInputs, listed, idx, inFlight, remoteOps, responses, processed,
                   error>>

NextExport ==
    \/ ExportAllAsync
    \/ ValidationResolves
    \/ ExportRejects
    \/ ExportSkip
    \/ ExportList
    \/ ExportListResolves
    \/ ExportLanguageVariantsAsync
    \/ LanguageVariantsResolve
    \/ LanguageVariantsReturn
    \/ ExportReturn

SpecExport == InitExport /\ [][NextExport]_vars

-----------------------------------------------------------------------------
(* Properties *)

Items == 1..Len(captured)

\* the item of the list whose object a result holds as its original
ResultItem(r) ==
    CHOOSE i \in 1..Len(orderedImportItems) : orderedImportItems[i].item = r.original

\* importItemAsync passes the item over
Skipped(i) == captured[i].type = "language" /\ config.skipLanguages

\* the item lacks a codename its importer requires
InvalidItem(i) ==
    LET it == captured[i]
    IN  \/ /\ it.type = "language"
           /\ ~config.skipLanguages
           /\ it.item.fallback_language.codename = ""
        \/ it.type = "contentItem" /\ it.item.type.codename = ""
        \/ /\ it.type = "languageVariant"
           /\ (it.item.item.codename = "" \/ it.item.language.codename = "")

\* the binary list holds no payload for the asset
NoBinary(i) ==
    /\ captured[i].type = "asset"
    /\ \A k \in 1..Len(binaryFiles) : binaryFiles[k].asset.id # captured[i].item.id

\* the target rejected a remote operation of the item
Rejected(i) == \E k \in 1..Len(responses) : responses[k].item = i /\ ~responses[k].ok

\* a reference of the item was looked up and not found
Unresolved(i) == \E k \in 1..Len(lookups) : lookups[k].item = i /\ ~lookups[k].found

FatalAt(i) ==
    \/ InvalidItem(i)
    \/ NoBinary(i)
    \/ captured[i].type \notin ItemType
    \/ Rejected(i)
    \/ Unresolved(i)

\* C1: once an item failed with a fatal error (validation, resolution, a
\* rejected remote call), no remote operation and no progress callback is
\* ever issued for an item behind it, and the loop never moves past it
C1_NoLaterItemAttempted ==
    \A i \in Items :
        FatalAt(i) =>
            /\ idx <= i
            /\ \A k \in 1..Len(remoteOps) : remoteOps[k].item <= i
            /\ \A k \in 1..Len(processed) : processed[k].item <= i
            /\ \A k \in 1..Len(lookups) : lookups[k].item <= i

\* C1 witness: the run failed at an item that is neither the first nor the
\* last of the list, after remote operations of earlier items
C1_Witness ==
    /\ pc = "failed"
    /\ FatalAt(idx)
    /\ 1 < idx /\ idx < Len(orderedImportItems)
    /\ remoteOps # <<>>

\* the accumulator holds exactly one result for every item before the n-th
\* that was not passed over, in the order of the list
PrefixResults(n) ==
    /\ Len(importedItems) = Cardinality({j \in 1..(n - 1) : ~Skipped(j)})
    /\ \A k \in 1..Len(importedItems) : ResultItem(importedItems[k]) \in 1..(n - 1)
    /\ \A k \in 1..Len(importedItems) : \A l \in 1..Len(importedItems) :
          k < l => ResultItem(importedItems[k]) < ResultItem(importedItems[l])

\* the result lists and the errors the caller of the run received
ReceivedResults == IF returned.state = "resolved" THEN <<returned.value>> ELSE <<>>

ReceivedErrors == IF returned.state = "rejected" THEN <<returned.value>> ELSE <<>>

C3_ListOrder ==
    /\ \A k \in 1..Len(remoteOps) : \A l \in 1..Len(remoteOps) :
          k < l => remoteOps[k].item <= remoteOps[l].item
    /\ \A k \in 1..Len(importedItems) : \A l \in 1..Len(importedItems) :
          k < l => ResultItem(importedItems[k]) < ResultItem(importedItems[l])
    /\ pc = "done" => ReceivedResults = <<importedItems>>

\* C3 witness: a run returned three results or more
C3_Witness ==
    /\ pc = "done"
    /\ Len(importedItems) >= 3
    /\ Len(remoteOps) > Len(importedItems)

\* the kind-precedence table: entities of kind a are created before those of
\* kind b
Precedes(a, b) ==
    <<a, b>> \in {<<"taxonomy", "contentType">>,
                  <<"contentType", "contentItem">>,
                  <<"contentTypeSnippet", "contentItem">>,
                  <<"language", "languageVariant">>,
                  <<"contentItem", "languageVariant">>,
                  <<"asset", "languageVariant">>}

\* the entities of the snapshot, as kind and position in the list of the kind
SnapshotEntities ==
    {e \in ItemType \X (1..MaxPerKind) : e[2] <= Len(sourceData[e[1]])}

\* the positions of the planned list that hold the entity
PlannedAt(e) ==
    {i \in Items : captured[i] = [type |-> e[1], item |-> sourceData[e[1]][e[2]]]}

\* importFromSourceAsync has planned the list and importAsync is about to
\* take its first item; the planned list is captured there once
Planned == entry = "importFromSourceAsync" /\ pc = "loop" /\ idx = 1

\* C4: the planned list holds every entity of the snapshot exactly once,
\* no entity ahead of one whose kind precedes its kind, and entities of one
\* kind in the order of the snapshot
C4_PlannerOrder ==
    Planned =>
        /\ Len(captured) = Cardinality(SnapshotEntities)
        /\ \A e \in SnapshotEntities : Cardinality(PlannedAt(e)) = 1
        /\ \A i \in Items : \A j \in Items :
              i < j => ~Precedes(captured[j].type, captured[i].type)
        /\ \A e \in SnapshotEntities : \A f \in SnapshotEntities :
              (e[1] = f[1] /\ e[2] < f[2]) =>
                  \A i \in PlannedAt(e) : \A j \in PlannedAt(f) : i < j

\* C4 witness: a snapshot of five entities or more with two languages and
\* two assets, which the planner had to reorder
C4_Witness ==
    /\ Planned
    /\ Len(captured) >= 5
    /\ Len(sourceData["language"]) = 2
    /\ Len(sourceData["asset"]) = 2
    /\ captured # Flatten(sourceData, 1)

\* the source id of the entity of an item: its id, or for a language variant
\* the id of the content item it belongs to
SourceId(it) == IF it.type = "languageVariant" THEN it.item.item.id ELSE it.item.id

\* the id the target gave the object it created
TargetIdOf(type, data) == IF type = "languageVariant" THEN data.item.id ELSE data.id

\* C5: a run that finishes without error returns one result per created
\* entity, in processing order, each with the original payload, the created
\* object, the source id as originalId and the target id as importId
C5_ResultsCarryOriginals ==
    pc = "done" =>
        /\ ReceivedResults = <<importedItems>>
        /\ PrefixResults(Len(captured) + 1)
        /\ \A k \in 1..Len(importedItems) :
              LET r == importedItems[k]
                  i == ResultItem(r)
              IN  /\ r.original = captured[i].item
                  /\ r.originalId = SourceId(captured[i])
                  /\ \E t \in 1..Len(target) :
                        /\ target[t].kind = captured[i].type
                        /\ target[t].data = r.imported
                  /\ r.importId = TargetIdOf(captured[i].type, r.imported)

\* the remote operations issued for the item
OpsOf(i) == {k \in 1..Len(remoteOps) : remoteOps[k].item = i}

\* the results that hold the object of the item
ResultsOf(i) ==
    {k \in 1..Len(importedItems) : importedItems[k].original = orderedImportItems[i].item}
    \cup {k \in 1..Len(localItems) : idx = i /\ localItems[k].original = orderedImportItems[i].item}

\* the importer of the item has run up to its first await, or has thrown
Entered(i) == idx > i \/ (idx = i /\ pc \notin {"loop", "rewriting"})

\* C6: an item that lacks a required codename (fallback language, type,
\* item or language codename) fails in its importer before any remote
\* call: no remote operation is issued for it, no result is recorded for
\* it, and the run is aborted at it with the validation error
C6_ValidationBeforeRemote ==
    \A i \in Items :
        InvalidItem(i) =>
            /\ OpsOf(i) = {}
            /\ ResultsOf(i) = {}
            /\ idx <= i
            /\ Entered(i) => (pc = "failed" /\ error.kind = "ValidationError")

\* C6 witness: the run was aborted by a language without fallback codename
\* behind an item that was created
C6_Witness ==
    /\ pc = "failed"
    /\ idx = 2
    /\ InvalidItem(idx)
    /\ captured[idx].type = "language"
    /\ OpsOf(1) # {}

\* C7: an asset without a binary payload for its source id fails before any
\* remote call: neither upload nor create is issued, no result is recorded
C7_AssetWithoutBinary ==
    \A i \in Items :
        NoBinary(i) =>
            /\ OpsOf(i) = {}
            /\ ResultsOf(i) = {}
            /\ idx <= i
            /\ Entered(i) => (pc = "failed" /\ error.kind = "ValidationError")

\* C7 witness: the run was aborted by an asset without binary, behind an
\* asset that was uploaded and created
C7_Witness ==
    /\ pc = "failed"
    /\ NoBinary(idx)
    /\ \E i \in 1..(idx - 1) : captured[i].type = "asset" /\ Cardinality(OpsOf(i)) = 2

\* C8: the create-language request of a language that is its own fallback
\* names the fallback by the reserved id, that of any other language names
\* it by codename; importing a language looks nothing up
C8_LanguageFallback ==
    \A k \in 1..Len(remoteOps) :
        remoteOps[k].op = "addLanguage" =>
            LET language == captured[remoteOps[k].item].item
            IN  /\ remoteOps[k].data.fallback_language =
                      IF language.fallback_language.codename = language.codename
                      THEN [id |-> "00000000-0000-0000-0000-000000000000"]
                      ELSE [codename |-> language.fallback_language.codename]
                /\ \A l \in 1..Len(lookups) : lookups[l].item # remoteOps[k].item

\* C8 witness: a language that is its own fallback and one that falls back
\* to another were both submitted, and a later item looked references up
C8_Witness ==
    /\ \E k \in 1..Len(remoteOps) :
          /\ remoteOps[k].op = "addLanguage"
          /\ remoteOps[k].data.fallback_language = [id |-> NoFallbackId]
    /\ \E k \in 1..Len(remoteOps) :
          /\ remoteOps[k].op = "addLanguage"
          /\ remoteOps[k].data.fallback_language = [codename |-> "en"]
    /\ lookups # <<>>

\* the references of a language variant: field, position, id
VariantRefs(lv) ==
    {<<"item", 0, lv.item.id>>, <<"language", 0, lv.language.id>>}
    \cup {<<"elements", p, lv.elements[p].id>> : p \in 1..Len(lv.elements)}

\* the results of items ahead of the i-th whose originalId is id
Resolving(i, id) ==
    {q \in 1..Len(importedItems) :
        /\ importedItems[q].originalId = id
        /\ ResultItem(importedItems[q]) < i}

\* the references of the i-th item that no earlier result resolves
Missing(i) == {ref \in VariantRefs(captured[i].item) : Resolving(i, ref[3]) = {}}

IsVariant(i) == captured[i].type = "languageVariant" /\ ~InvalidItem(i)

\* C9: a language variant with a reference that no earlier result resolves
\* fails with a resolution error that names the field and the source id;
\* the run is aborted and nothing is submitted for the variant
C9_UnresolvedReferenceIsFatal ==
    \A i \in Items :
        IsVariant(i) =>
            /\ (idx = i /\ pc \notin {"loop", "rewriting"} /\ Missing(i) # {}) =>
                  /\ pc = "failed"
                  /\ error.kind = "ResolutionError"
                  /\ <<error.field, error.pos, error.id>> \in Missing(i)
            /\ OpsOf(i) # {} => Missing(i) = {}
            /\ Missing(i) # {} => (idx <= i /\ ResultsOf(i) = {})

\* C9 witness: behind two created items the run was aborted by a variant
\* whose item resolves and whose element reference does not
C9_Witness ==
    /\ pc = "failed"
    /\ idx >= 3
    /\ IsVariant(idx)
    /\ error.kind = "ResolutionError"
    /\ error.field = "elements"
    /\ Len(importedItems) >= 2

\* the ids of the source instance that the list carries
SourceIds ==
    UNION {IF captured[i].type = "languageVariant"
           THEN {ref[3] : ref \in VariantRefs(captured[i].item)}
           ELSE {captured[i].item.id} : i \in Items}

\* the importId of the first earlier result whose originalId is id
Translated(i, id) ==
    importedItems[CHOOSE q \in Resolving(i, id) : \A r \in Resolving(i, id) : q <= r].importId

\* C10: the elements submitted for a language variant hold, for each of the
\* N references of the source payload, the importId of the result whose
\* originalId is the source id: N substitutions, no source id left; the
\* item and language pointers of the variant object are rewritten alike
C10_RewrittenPayload ==
    \A k \in 1..Len(remoteOps) :
        remoteOps[k].op = "upsertLanguageVariant" =>
            LET i   == remoteOps[k].item
                src == captured[i].item
                now == orderedImportItems[i].item
                sub == remoteOps[k].data.elements
            IN  /\ Len(sub) = Len(src.elements)
                /\ \A p \in 1..Len(sub) :
                      /\ Resolving(i, src.elements[p].id) # {}
                      /\ sub[p].id = Translated(i, src.elements[p].id)
                /\ Cardinality({p \in 1..Len(sub) : sub[p].id # src.elements[p].id})
                      = Len(src.elements)
                /\ \A p \in 1..Len(sub) : sub[p].id \notin SourceIds
                /\ now.item.id = Translated(i, src.item.id)
                /\ now.language.id = Translated(i, src.language.id)
                /\ {ref[3] : ref \in VariantRefs(now)} \cap SourceIds = {}

\* C10 witness: a variant was submitted whose elements refer to an asset and
\* to a content item, both created earlier in the run
C10_Witness ==
    \E k \in 1..Len(remoteOps) :
        /\ remoteOps[k].op = "upsertLanguageVariant"
        /\ Len(remoteOps[k].data.elements) = 2
        /\ remoteOps[k].data.elements[1].id # remoteOps[k].data.elements[2].id
        /\ captured[remoteOps[k].item].item.elements[1].id = "src-asset"

\* the snapshot of the end-to-end scenario: one taxonomy, one content type,
\* one content item and one variant of it in language en whose elements
\* refer to the asset src-asset; it holds no other language and no other
\* asset
Scenario ==
    /\ entry = "importFromSourceAsync"
    /\ Len(sourceData["taxonomy"]) = 1
    /\ Len(sourceData["contentType"]) = 1
    /\ Len(sourceData["contentItem"]) = 1
    /\ Len(sourceData["languageVariant"]) = 1
    /\ sourceData["languageVariant"][1].language.id = "src-en"
    /\ sourceData["languageVariant"][1].elements = <<[id |-> "src-asset"]>>
    /\ sourceData["contentTypeSnippet"] = <<>>
    /\ \A k \in 1..Len(sourceData["language"]) : sourceData["language"][k].id = "src-en"
    /\ \A k \in 1..Len(sourceData["asset"]) : sourceData["asset"][k].id = "src-asset"

\* the snapshot of the scenario also holds the language and the asset
ScenarioWithLanguageAndAsset ==
    /\ Scenario
    /\ Len(sourceData["language"]) = 1
    /\ Len(sourceData["asset"]) = 1

\* the run has ended, no remote operation was rejected and no callback threw
EndedUnrejected ==
    /\ pc \in {"done", "failed"}
    /\ \A k \in 1..Len(responses) : responses[k].ok
    /\ error.kind # "Error"

\* the results the caller received hold one of a variant whose elements are
\* the one reference to the target id of the asset, which is no source id
VariantRefersToTargetAsset ==
    /\ returned.state = "resolved"
    /\ \E a \in 1..Len(returned.value) : \E v \in 1..Len(returned.value) :
          /\ returned.value[a].originalId = "src-asset"
          /\ returned.value[a].importId # "src-asset"
          /\ \E t \in 1..Len(target) :
                /\ target[t].kind = "asset"
                /\ target[t].data.id = returned.value[a].importId
          /\ "elements" \in DOMAIN returned.value[v].imported
          /\ returned.value[v].imported.elements =
                <<[id |-> returned.value[a].importId]>>

\* C11 as stated: importing the snapshot of the scenario in planner order
\* yields 4 successful results, and the elements of the imported variant
\* hold the target id of the asset
C11_FourResults ==
    (Scenario /\ pc = "done") =>
        /\ Len(ReceivedResults[1]) = 4
        /\ VariantRefersToTargetAsset

\* C11 amended: the snapshot of the scenario with its language and its asset
\* holds six entities; imported in planner order with languages not skipped
\* and no remote operation rejected, it yields 6 successful results, and the
\* elements of the imported variant hold the target id of the asset
C11_SixResults ==
    (ScenarioWithLanguageAndAsset /\ ~config.skipLanguages /\ EndedUnrejected) =>
        /\ pc = "done"
        /\ Len(captured) = 6
        /\ Len(ReceivedResults[1]) = 6
        /\ VariantRefersToTargetAsset

\* C11 witness: the run of the six-entity snapshot returned its results
C11_Witness ==
    /\ ScenarioWithLanguageAndAsset
    /\ ~config.skipLanguages
    /\ pc = "done"
    /\ Len(importedItems) = 6
    /\ importedItems[6].imported.elements = <<[id |-> importedItems[4].importId]>>

\* the kind of the entity a result was recorded for
ResultKind(r) == captured[ResultItem(r)].type

\* no two accumulated results have the same kind and the same originalId
OneEntryPerSource ==
    \A k \in 1..Len(importedItems) : \A l \in 1..Len(importedItems) :
        k # l =>
            <<ResultKind(importedItems[k]), importedItems[k].originalId>>
                # <<ResultKind(importedItems[l]), importedItems[l].originalId>>

\* a step leaves every accumulated result where and as it is
EntriesKept ==
    /\ Len(importedItems') >= Len(importedItems)
    /\ \A k \in 1..Len(importedItems) : importedItems'[k] = importedItems[k]

\* C12: in every reachable state the accumulated results hold at most one
\* entry per (kind, sourceId), and an entry once written is never
\* overwritten or changed, also after a content item and its variants
C12_OneEntryNeverOverwritten == []OneEntryPerSource /\ [][EntriesKept]_vars

\* a step registers a result: a .then handler has pushed one for the item
\* the loop is at
Registers == pc = "awaiting" /\ localItems' # localItems /\ localItems' # <<>>

\* the accumulated results that have the kind and the originalId of the
\* result the step registers
RegisteredAlready ==
    LET new == localItems'[Len(localItems')]
    IN  {k \in 1..Len(importedItems) :
            /\ ResultKind(importedItems[k]) = captured[idx].type
            /\ importedItems[k].originalId = new.originalId}

\* C13: registering a (kind, sourceId) pair that is registered already
\* leaves the translation state as it is when the targetId is the same, and
\* is rejected, the earlier mapping staying in place, when it differs
C13_RegisterIdempotentOrRejected ==
    [][Registers =>
          \A k \in RegisteredAlready :
              /\ importedItems' = importedItems
              /\ localItems'[Len(localItems')].importId # importedItems[k].importId
                    => pc' = "failed"]_vars

\* the target created the entity of the item: its create or upsert succeeded
Created(i) ==
    \E k \in 1..Len(responses) :
        /\ responses[k].item = i
        /\ responses[k].ok
        /\ responses[k].op # "uploadBinaryFile"

\* the calls of the progress callback made for the item
CallsFor(i) == {k \in 1..Len(processed) : processed[k].item = i}

\* the display title of the item: the name of the entity, the file name of
\* an asset, item and language codename of a variant
DisplayTitle(i) ==
    LET it == captured[i]
    IN  IF it.type = "asset" THEN it.item.file_name
        ELSE IF it.type = "languageVariant"
        THEN it.item.item.codename \o " (" \o it.item.language.codename \o ")"
        ELSE it.item.name

\* C14: the progress callback is called exactly once for each entity that
\* was created, in list order, with the title, the kind and the created
\* object of the item, and never for an item that failed or was passed
\* over; without a callback nothing is called, and a result is recorded for
\* every created entity either way
C14_ProgressCallback ==
    /\ \A i \in Items :
          /\ Cardinality(CallsFor(i)) =
                IF config.hasProcessItem /\ Created(i) THEN 1 ELSE 0
          /\ Created(i) => ResultsOf(i) # {}
          /\ \A k \in CallsFor(i) :
                /\ processed[k].title = DisplayTitle(i)
                /\ processed[k].type = captured[i].type
                /\ \E t \in 1..Len(target) :
                      /\ target[t].kind = captured[i].type
                      /\ target[t].data = processed[k].data
                /\ \/ \E r \in 1..Len(importedItems) :
                         importedItems[r].imported = processed[k].data
                   \/ \E q \in 1..Len(localItems) :
                         localItems[q].imported = processed[k].data
    /\ \A k \in 1..Len(processed) : \A l \in 1..Len(processed) :
          k < l => processed[k].item < processed[l].item
    /\ ~config.hasProcessItem => processed = <<>>

\* C14 witness: the callback was called for three items, one of them an
\* asset that took two remote operations, and was not called for a later
\* item that the target rejected
C14_Witness ==
    /\ config.hasProcessItem
    /\ Len(processed) >= 3
    /\ \E k \in 1..Len(processed) :
          /\ processed[k].type = "asset"
          /\ Cardinality(OpsOf(processed[k].item)) = 2
    /\ pc = "failed"
    /\ Rejected(idx)
    /\ CallsFor(idx) = {}
    /\ idx > processed[Len(processed)].item

\* the workflow-step ids the variants of the list carried when it was handed
\* to the run
SourceSteps ==
    {captured[i].item.workflow_step.id :
        i \in {j \in Items : captured[j].type = "languageVariant"}}

CreateOpsOf(i) == {k \in OpsOf(i) : remoteOps[k].op # "uploadBinaryFile"}

\* C16: an import item is consumed once and its payload is never edited in
\* place: the items of the list stay as they were captured, and the
\* original of every result is the payload as captured
C16_PayloadNeverEdited ==
    pc # "start" =>
        /\ \A i \in Items : Cardinality(CreateOpsOf(i)) <= 1
        /\ orderedImportItems = captured
        /\ \A k \in 1..Len(importedItems) :
              \E i \in Items : importedItems[k].original = captured[i].item

\* C17: with config.skip.languages set, a language item is passed over: no
\* remote operation, no lookup, no result and no progress callback for it,
\* and the run does not stop at it; without the flag a language is
\* submitted like an item of any other kind, its result recorded
C17_SkipLanguages ==
    \A i \in Items :
        captured[i].type = "language" =>
            IF config.skipLanguages
            THEN /\ OpsOf(i) = {}
                 /\ ResultsOf(i) = {}
                 /\ CallsFor(i) = {}
                 /\ \A k \in 1..Len(lookups) : lookups[k].item # i
                 /\ idx = i => pc = "loop"
            ELSE /\ (Entered(i) /\ ~InvalidItem(i)) =>
                        /\ Cardinality(OpsOf(i)) = 1
                        /\ \A k \in OpsOf(i) : remoteOps[k].op = "addLanguage"
                 /\ Created(i) => ResultsOf(i) # {}
                 /\ (idx > i) => Created(i)

\* C17 witness: with the flag set the run passed two languages over and
\* created the item behind them; nothing was recorded for the languages
C17_Witness ==
    /\ config.skipLanguages
    /\ idx = 4
    /\ captured[1].type = "language"
    /\ captured[2].type = "language"
    /\ Created(3)
    /\ Len(importedItems) = 1

\* the remote operations the import issues: each creates or upserts
CreatingOps ==
    {"addTaxonomy", "addContentType", "addContentTypeSnippet", "addLanguage",
     "uploadBinaryFile", "addAsset", "addContentItem", "upsertLanguageVariant"}

\* the remote operations the target answered with success, in order
Succeeded == SelectSeq(responses, LAMBDA a : a.ok)

\* C18: a fatal error triggers no rollback: every remote operation of a
\* run creates or upserts, none is issued once the run is aborted, and the
\* target holds every object a successful operation created, also the file
\* uploaded for an asset whose create-asset call was then rejected
C18_NoRollback ==
    /\ \A k \in 1..Len(remoteOps) : remoteOps[k].op \in CreatingOps
    /\ Len(target) = Len(Succeeded)
    /\ \A t \in 1..Len(target) :
          target[t].kind =
              IF Succeeded[t].op = "uploadBinaryFile" THEN "file"
              ELSE captured[Succeeded[t].item].type
    /\ pc = "failed" =>
          /\ inFlight = <<>>
          /\ Len(remoteOps) = Len(responses)
          /\ \A k \in 1..Len(remoteOps) :
                remoteOps[k].op = responses[k].op /\ remoteOps[k].item = responses[k].item

\* C18 witness: the run was aborted by a rejected create-asset call behind
\* an entity that was created; the uploaded file is the last object of the
\* target
C18_Witness ==
    /\ pc = "failed"
    /\ Len(target) >= 2
    /\ remoteOps[Len(remoteOps)].op = "addAsset"
    /\ ~responses[Len(responses)].ok
    /\ target[Len(target)].kind = "file"
    /\ target[Len(target)].data.id = pendingFile.id

\* the results the accumulator holds for the item
AccumulatedFor(i) ==
    {k \in 1..Len(importedItems) : ResultItem(importedItems[k]) = i}

\* C19: at most one remote operation is in flight, that of the item the
\* loop is at, and it is answered before the next is issued; every item
\* ahead of that one is finished (passed over, or created with its result
\* in the accumulator), and nothing of an item behind it has begun
C19_OneAtATime ==
    /\ Len(inFlight) <= 1
    /\ (pc = "awaiting") <=> (Len(inFlight) = 1)
    /\ \A k \in 1..Len(inFlight) : inFlight[k].item = idx
    /\ Len(remoteOps) = Len(responses) + Len(inFlight)
    /\ \A k \in 1..Len(responses) :
          remoteOps[k].op = responses[k].op /\ remoteOps[k].item = responses[k].item
    /\ \A i \in Items :
          /\ i < idx =>
                IF Skipped(i)
                THEN OpsOf(i) = {} /\ AccumulatedFor(i) = {}
                ELSE Created(i) /\ Cardinality(AccumulatedFor(i)) = 1
          /\ i > idx =>
                /\ OpsOf(i) = {}
                /\ CallsFor(i) = {}
                /\ AccumulatedFor(i) = {}
                /\ orderedImportItems[i] = captured[i]
                /\ \A k \in 1..Len(lookups) : lookups[k].item # i

\* C19 witness: the create-asset call of the third item is in flight, its
\* upload and the operations of the two items ahead of it are answered,
\* and items are still to come
C19_Witness ==
    /\ pc = "awaiting"
    /\ idx = 3
    /\ idx < Len(orderedImportItems)
    /\ inFlight[1].op = "addAsset"
    /\ Len(responses) = 3
    /\ Len(importedItems) = 2

\* the items ahead of the i-th whose entity was created and whose source id
\* is id
CreatedEarlier(i, id) ==
    {j \in 1..(i - 1) : Created(j) /\ SourceId(captured[j]) = id}

\* C20: while the k-th item is processed the accumulator holds exactly the
\* results of the items 1..k-1 that were created, in list order, each with
\* the created object; so every lookup a language variant makes for the
\* source id of an entity created earlier in the run finds its result, and
\* a lookup finds nothing else
C20_AccumulatorFedForward ==
    /\ (pc \in {"loop", "rewriting", "awaiting"} /\ idx <= Len(captured)) =>
          /\ PrefixResults(idx)
          /\ \A j \in 1..(idx - 1) :
                Created(j) <=> (AccumulatedFor(j) # {})
          /\ \A k \in 1..Len(importedItems) :
                \E t \in 1..Len(target) :
                    target[t].data = importedItems[k].imported
    /\ \A l \in 1..Len(lookups) :
          lookups[l].found <=> (CreatedEarlier(lookups[l].item, lookups[l].id) # {})

\* C20 witness: a variant behind four created entities has resolved its
\* item, an asset and its language against the accumulator
C20_Witness ==
    /\ pc = "awaiting"
    /\ idx >= 5
    /\ captured[idx].type = "languageVariant"
    /\ Len(importedItems) = idx - 1
    /\ Cardinality({l \in 1..Len(lookups) :
                        lookups[l].item = idx /\ lookups[l].found}) >= 3
    /\ \E l \in 1..Len(lookups) : lookups[l].item = idx /\ lookups[l].id = "src-asset"

\* the state of the i-th item of the list: Pending until its importer
\* takes it up (an item importItemAsync passes over is never taken up),
\* Rewriting while its references are replaced, Submitting while a remote
\* operation of it is awaited, then Succeeded or Failed
ItemState(i) ==
    IF pc = "start" \/ i > idx \/ Skipped(i) THEN "Pending"
    ELSE IF i < idx THEN "Succeeded"
    ELSE IF pc = "loop" THEN "Pending"
    ELSE IF pc = "rewriting" THEN "Rewriting"
    ELSE IF pc = "awaiting" THEN "Submitting"
    ELSE "Failed"

StateRank(s) ==
    IF s = "Pending" THEN 0
    ELSE IF s = "Rewriting" THEN 1
    ELSE IF s = "Submitting" THEN 2
    ELSE 3

\* the state of the run: Completed once importAsync has returned or thrown
RunState == IF pc \in {"done", "failed"} THEN "Completed" ELSE "Running"

\* the states of the items and of the run fit together
LifecycleStates ==
    /\ \A i \in Items :
          /\ ItemState(i) = "Succeeded" => Created(i)
          /\ ItemState(i) = "Rewriting" => captured[i].type = "languageVariant"
    /\ (RunState = "Running") <=> (returned.state = "pending")
    /\ RunState = "Running" => ((pc = "awaiting") <=> (inFlight # <<>>))
    /\ pc = "done" =>
          /\ returned.state = "resolved"
          /\ inFlight = <<>>
          /\ \A i \in Items : Skipped(i) \/ ItemState(i) = "Succeeded"
    /\ pc = "failed" =>
          /\ returned.state = "rejected"
          /\ inFlight = <<>>
          /\ idx \in Items
          /\ \A i \in Items :
                ItemState(i) = IF i = idx THEN "Failed"
                               ELSE IF i > idx \/ Skipped(i) THEN "Pending"
                               ELSE "Succeeded"

\* a step moves no item backwards and leaves a completed run as it is
LifecycleStep ==
    /\ \A i \in Items :
          /\ StateRank(ItemState(i)') >= StateRank(ItemState(i))
          /\ ItemState(i) \in {"Succeeded", "Failed"} => ItemState(i)' = ItemState(i)
    /\ RunState = "Completed" => RunState' = "Completed"

\* C21: every item moves only forwards along Pending, Rewriting,
\* Submitting, then Succeeded or Failed, which it never leaves; it is
\* Succeeded only after the target answered its create or upsert with
\* success; the run is Running until importAsync returns or throws and
\* Completed from then on, with nothing in flight and every item that was
\* taken up Succeeded, or Succeeded up to the one that Failed
C21_ItemLifecycle == []LifecycleStates /\ [][LifecycleStep]_vars

\* C21 witness: the run has completed with a language variant that was
\* rewritten and submitted, and is Succeeded
C21_Witness ==
    /\ pc = "done"
    /\ \E i \in Items :
          /\ captured[i].type = "languageVariant"
          /\ ItemState(i) = "Succeeded"
          /\ \E l \in 1..Len(lookups) : lookups[l].item = i

\* the number of remote operations among the first k the target answered
\* with success: the position in the target of what the k-th created
CreatedUpTo(k) == Cardinality({j \in 1..k : responses[j].ok})

\* the positions of the uploads and of the create-asset calls
Uploads == {k \in 1..Len(remoteOps) : remoteOps[k].op = "uploadBinaryFile"}

AssetCreates == {k \in 1..Len(remoteOps) : remoteOps[k].op = "addAsset"}

\* C22: a create-asset call is issued only right behind the upload of the
\* same asset, after the target answered that upload with success, and it
\* carries the reference of the file that upload created; an upload that
\* succeeded is followed by the create-asset call, and an upload that
\* failed ends the run with the error of the upload and no create-asset
\* call for the asset
C22_UploadThenCreate ==
    /\ \A k \in AssetCreates :
          /\ k - 1 \in Uploads
          /\ remoteOps[k - 1].item = remoteOps[k].item
          /\ captured[remoteOps[k].item].type = "asset"
          /\ responses[k - 1].ok
          /\ LET file == target[CreatedUpTo(k - 1)]
                 it   == captured[remoteOps[k].item].item
             IN  /\ file.kind = "file"
                 /\ file.data.filename = it.file_name
                 /\ remoteOps[k - 1].data.filename = it.file_name
                 /\ remoteOps[k].data.file_reference =
                        [id |-> file.data.id, type |-> "internal"]
                 /\ remoteOps[k].data.title = it.title
    /\ \A k \in Uploads :
          /\ captured[remoteOps[k].item].type = "asset"
          /\ \E b \in 1..Len(binaryFiles) :
                /\ binaryFiles[b].asset.id = captured[remoteOps[k].item].item.id
                /\ binaryFiles[b].binaryData = remoteOps[k].data.binaryData
          /\ k <= Len(responses) =>
                IF responses[k].ok
                THEN k + 1 \in AssetCreates
                ELSE /\ pc = "failed"
                     /\ idx = remoteOps[k].item
                     /\ Len(remoteOps) = k
                     /\ error = RemoteError(remoteOps[k])
                     /\ returned = [state |-> "rejected", value |-> error]
                     /\ AccumulatedFor(idx) = {}

\* C22 witness: behind an entity that was created, an asset was uploaded
\* and then created with the reference of the uploaded file, and the run
\* has returned
C22_Witness ==
    /\ pc = "done"
    /\ \E k \in AssetCreates :
          /\ k > 2
          /\ responses[k].ok
          /\ remoteOps[k].data.file_reference.id = TargetIds[k - 1]
          /\ target[k].kind = "asset"

\* the run ended with the error config.processItem threw while the result
\* of the item was reported
CallbackThrew ==
    /\ pc = "failed"
    /\ error = [kind |-> "Error", cause |-> [kind |-> "CallbackError", item |-> idx]]

\* C23: when the progress callback throws while it reports a created
\* entity the run is aborted with that error: the target holds the entity,
\* whose create or upsert was answered with success, the callback was
\* called once for it, its result is in the list of its importer but not
\* in the accumulator, which holds the results of the items ahead of it,
\* and nothing of a later item is attempted
C23_CallbackThrows ==
    CallbackThrew =>
        /\ returned = [state |-> "rejected", value |-> error]
        /\ config.hasProcessItem
        /\ inFlight = <<>>
        /\ Created(idx)
        /\ responses[Len(responses)].ok
        /\ responses[Len(responses)].item = idx
        /\ target[Len(target)].kind = captured[idx].type
        /\ Cardinality(CallsFor(idx)) = 1
        /\ processed[Len(processed)].data = target[Len(target)].data
        /\ Len(localItems) = 1
        /\ localItems[1].imported = target[Len(target)].data
        /\ localItems[1].original = orderedImportItems[idx].item
        /\ \A k \in 1..Len(importedItems) : importedItems[k] # localItems[1]
        /\ Len(importedItems) = Cardinality({j \in 1..(idx - 1) : ~Skipped(j)})
        /\ \A i \in Items :
              i > idx => OpsOf(i) = {} /\ CallsFor(i) = {} /\ ~Entered(i)

\* C23 witness: the callback threw on the second item, created behind a
\* first one, and a third item is left
C23_Witness ==
    /\ CallbackThrew
    /\ idx = 2
    /\ Len(captured) >= 3
    /\ Len(importedItems) = 1
    /\ Len(target) >= 2

\* the place of a kind in the sweep
SweepRank(kind) ==
    IF kind = "contentItem" THEN 1
    ELSE IF kind = "contentType" THEN 2
    ELSE IF kind = "contentTypeSnippet" THEN 3
    ELSE IF kind = "taxonomy" THEN 4
    ELSE IF kind = "asset" THEN 5
    ELSE IF kind = "assetFolder" THEN 6
    ELSE 0

SweptKinds ==
    {"contentItem", "contentType", "contentTypeSnippet", "taxonomy", "asset",
     "assetFolder"}

ListOps ==
    {"listContentItems", "listContentTypes", "listContentTypeSnippets",
     "listTaxonomies", "listAssets", "listAssetFolders"}

DeleteOps ==
    {"deleteContentItem", "deleteContentType", "deleteContentTypeSnippet",
     "deleteTaxonomy", "deleteAsset", "modifyAssetFolders"}

\* the ids a delete operation addresses
DeletedIds(op) ==
    IF op.op = "modifyAssetFolders"
    THEN {op.data[i].reference.id : i \in 1..Len(op.data)}
    ELSE {op.data.id}

\* the deletes issued for the entity of the kind that has the id
DeletesOf(kind, id) ==
    {k \in 1..Len(remoteOps) :
        /\ remoteOps[k].op \in DeleteOps
        /\ remoteOps[k].kind = kind
        /\ id \in DeletedIds(remoteOps[k])}

\* the sweep of the kind is over
Swept(kind) == pc = "done" \/ (pc # "start" /\ idx > SweepRank(kind))

\* a delete was rejected
FailedDeletes ==
    {k \in 1..Len(responses) : responses[k].op \in DeleteOps /\ ~responses[k].ok}

\* C24: a delete that fails does not stop the sweep: the run throws only
\* when a listing fails, never on a delete; once the sweep of a kind is
\* over a delete was issued for every entity of the kind the project held,
\* whichever deletes failed before; a run whose listings all succeed
\* returns its result; and the progress callback is called only for
\* entities whose delete the target answered with success, never twice
\* for one, while an entity whose delete failed stays in the project
C24_FailedDeleteGoesOn ==
    /\ pc = "failed" =>
          /\ responses[Len(responses)].op \in ListOps
          /\ ~responses[Len(responses)].ok
    /\ \A k \in 1..Len(responses) :
          (responses[k].op \in ListOps /\ ~responses[k].ok) =>
              (pc = "failed" /\ k = Len(responses))
    /\ \A kind \in SweptKinds :
          Swept(kind) =>
              \A i \in 1..Len(EntitiesOf(captured, kind)) :
                  Cardinality(DeletesOf(kind, EntitiesOf(captured, kind)[i].id)) = 1
    /\ pc = "done" =>
          /\ returned = [state |-> "resolved",
                         value |-> [metadata |-> [projectId |-> config.projectId]]]
          /\ error = NoError
    /\ \A c \in 1..Len(processed) :
          /\ \E k \in DeletesOf(processed[c].type, processed[c].data.id) :
                k <= Len(responses) /\ responses[k].ok
          /\ \A t \in 1..Len(target) : target[t].data # processed[c].data
          /\ \A d \in 1..Len(processed) : processed[d] = processed[c] => d = c
    /\ \A k \in FailedDeletes :
          \A id \in DeletedIds(responses[k]) :
              \E t \in 1..Len(target) :
                  target[t].kind = responses[k].kind /\ target[t].data.id = id

\* C24 witness: the delete of the first content item failed, the second
\* content item and an entity of a later kind were deleted and reported,
\* and cleanAllAsync returned
C24_Witness ==
    /\ pc = "done"
    /\ returned.state = "resolved"
    /\ responses[2].op = "deleteContentItem"
    /\ ~responses[2].ok
    /\ responses[3].op = "deleteContentItem"
    /\ responses[3].ok
    /\ \E k \in 1..Len(responses) :
          /\ responses[k].ok
          /\ responses[k].op \in DeleteOps
          /\ responses[k].kind # "contentItem"
    /\ Len(processed) = 2
    /\ Len(target) = 1

\* the positions of the listings
Listings == {k \in 1..Len(remoteOps) : remoteOps[k].op \in ListOps}

\* C25: the sweep lists and deletes kind by kind in the order content
\* items, content types, snippets, taxonomies, assets, asset folders: each
\* kind is listed once, its deletes follow its listing, an operation is
\* issued only when every operation before it is answered, so the deletes
\* of a kind are settled before the next kind is listed; no operation
\* addresses a language or a language variant, and those the project held
\* are left in it
C25_SweepOrder ==
    /\ \A k \in 1..Len(remoteOps) :
          /\ remoteOps[k].op \in ListOps \cup DeleteOps
          /\ remoteOps[k].kind \in SweptKinds
          /\ remoteOps[k].op \in {ListOp(remoteOps[k].kind), DeleteOp(remoteOps[k].kind)}
          /\ \A l \in 1..Len(remoteOps) :
                k < l =>
                    /\ SweepRank(remoteOps[k].kind) <= SweepRank(remoteOps[l].kind)
                    /\ remoteOps[l].op \in ListOps =>
                          SweepRank(remoteOps[k].kind) < SweepRank(remoteOps[l].kind)
          /\ remoteOps[k].op \in DeleteOps =>
                \E l \in Listings : l < k /\ remoteOps[l].kind = remoteOps[k].kind
    /\ Len(remoteOps) = Len(responses) + Len(inFlight)
    /\ Len(inFlight) <= 1
    /\ \A k \in 1..Len(responses) :
          responses[k].op = remoteOps[k].op /\ responses[k].data = remoteOps[k].data
    /\ \A k \in Listings : k = Len(remoteOps) \/ k <= Len(responses)
    /\ pc = "done" =>
          {remoteOps[k].kind : k \in Listings} = SweptKinds
    /\ EntitiesOf(target, "language") = EntitiesOf(captured, "language")
    /\ EntitiesOf(target, "languageVariant") = EntitiesOf(captured, "languageVariant")

\* C25 witness: the sweep has deleted a content item and an asset folder
\* of a project that holds a variant of the item, and has returned
C25_Witness ==
    /\ pc = "done"
    /\ Len(captured) = 3
    /\ \E k \in 1..Len(responses) : responses[k].op = "deleteContentItem" /\ responses[k].ok
    /\ \E k \in 1..Len(responses) : responses[k].op = "modifyAssetFolders" /\ responses[k].ok
    /\ Len(target) = 1
    /\ target[1].kind = "languageVariant"

\* the field of the exported data that holds the entities of a kind
DataField(kind) ==
    IF kind = "contentType" THEN "contentTypes"
    ELSE IF kind = "contentTypeSnippet" THEN "contentTypeSnippets"
    ELSE IF kind = "taxonomy" THEN "taxonomies"
    ELSE IF kind = "webhook" THEN "webhooks"
    ELSE IF kind = "workflow" THEN "workflows"
    ELSE IF kind = "contentItem" THEN "contentItems"
    ELSE IF kind = "collection" THEN "collections"
    ELSE IF kind = "languageVariant" THEN "languageVariants"
    ELSE IF kind = "asset" THEN "assets"
    ELSE IF kind = "language" THEN "languages"
    ELSE "assetFolders"

\* the kinds the filter of the run lets through
Exported(kind) == ~config.exportFilter.given \/ kind \in config.exportFilter.kinds

\* the calls of onExport for the entity
ExportCallsFor(kind, e) ==
    {c \in 1..Len(processed) : processed[c].type = kind /\ processed[c].data = e}

\* C26: onExport is never called for an entity of a kind the filter
\* excludes and never twice for one entity, and when exportAllAsync has
\* returned it was called once for every entity of the exported data
C26_OnExportOncePerExported ==
    /\ \A c \in 1..Len(processed) :
          /\ Exported(processed[c].type)
          /\ Cardinality(ExportCallsFor(processed[c].type, processed[c].data)) = 1
    /\ (pc = "done" /\ config.hasOnExport) =>
          \A kind \in ExportKinds \ {"binaryFile"} :
              LET field == returned.value.data[DataField(kind)]
              IN  /\ \A i \in 1..Len(field) :
                        Cardinality(ExportCallsFor(kind, field[i])) = 1
                  /\ \A c \in 1..Len(processed) :
                        processed[c].type = kind =>
                            \E i \in 1..Len(field) : field[i] = processed[c].data

\* the remote operations the importer of a kind issues
ImporterOps(type) ==
    IF type = "taxonomy" THEN {"addTaxonomy"}
    ELSE IF type = "contentType" THEN {"addContentType"}
    ELSE IF type = "contentTypeSnippet" THEN {"addContentTypeSnippet"}
    ELSE IF type = "language" THEN {"addLanguage"}
    ELSE IF type = "asset" THEN {"uploadBinaryFile", "addAsset"}
    ELSE IF type = "contentItem" THEN {"addContentItem"}
    ELSE IF type = "languageVariant" THEN {"upsertLanguageVariant"}
    ELSE {}

SevenKinds ==
    {"taxonomy", "contentTypeSnippet", "contentType", "language", "asset",
     "contentItem", "languageVariant"}

\* C27: an item whose kind is none of the seven ends the run with 'Not
\* supported import data type' as soon as the loop takes it up, with no
\* remote operation, callback or result of it or of a later item; the
\* remote operations of an item of a supported kind are those of the
\* importer of its kind, and the run ends with that error for no other
\* item
C27_UnsupportedKind ==
    \A i \in Items :
        LET type == captured[i].type
        IN  /\ \A k \in OpsOf(i) : remoteOps[k].op \in ImporterOps(type)
            /\ type \notin SevenKinds =>
                  /\ OpsOf(i) = {}
                  /\ CallsFor(i) = {}
                  /\ AccumulatedFor(i) = {}
                  /\ idx <= i
                  /\ (idx = i /\ pc # "loop") =>
                        /\ pc = "failed"
                        /\ error = [kind |-> "Error",
                                    message |-> "Not supported import data type '"
                                                    \o type \o "'"]
                        /\ returned = [state |-> "rejected", value |-> error]
                        /\ \A j \in Items : j > i => OpsOf(j) = {}
            /\ (type \in SevenKinds /\ idx = i /\ pc = "failed") =>
                  ("message" \in DOMAIN error =>
                        error.message # "Not supported import data type '"
                                            \o type \o "'")

\* C27 witness: behind an entity that was created the loop took up an item
\* of an unknown kind and the run ended with its error
C27_Witness ==
    /\ pc = "failed"
    /\ idx = 2
    /\ captured[idx].type \notin SevenKinds
    /\ Created(1)
    /\ Len(remoteOps) = 1
    /\ error = UnsupportedError(captured[idx].type)

====
